---- MODULE Spec2Model ----
(***************************************************************************)
(* The authentication and rate-limiting gate of the jackpot dashboard:     *)
(* utils/auth.py (credential store, login callback, rate limiter, session  *)
(* check, logout) and utils/ip_manager.py (IP policy, IP activity log).    *)
(*                                                                         *)
(* Time is counted in whole seconds (datetime.now() is formatted to the    *)
(* second; time.time() is read at the same instant).  Files are modelled   *)
(* as records [exists, ...]: a file that was never written does not exist. *)
(***************************************************************************)
EXTENDS Integers, Sequences, FiniteSets, TLC

VARIABLES
    now,               \* the wall clock, in seconds
    credentials_file,  \* utils/credentials.json
    USER_CREDENTIALS,  \* the module-level copy loaded at import time
    ip_config,         \* ip_config.json
    rate_limits,       \* utils/logs/rate_limits.json
    login_activity,    \* utils/logs/login_activity.csv
    ip_activity,       \* logs/ip_activity.csv
    session,           \* st.session_state of every browser session
    panel_rate_limits, \* logs/rate_limits.json of the working directory
    requests           \* the failed login each session has in progress

vars == <<now, credentials_file, USER_CREDENTIALS, ip_config, rate_limits,
          login_activity, ip_activity, session, panel_rate_limits, requests>>

----------------------------------------------------------------------------
(* Bounds of the model *)

\* largest clock value explored
MaxTime == 450
\* largest clock value explored in the locked-gate specification
MaxTimeGate == 1800
\* data rows either activity stream may hold in the general specification
MaxRows == 2
\* data rows of the IP-activity stream in the username-lockout specification
MaxRowsLock == 8
\* data rows of the IP-activity stream in the IP-lockout specification
MaxRowsIP == 13
\* data rows of the IP-activity stream in the locked-gate specification
MaxRowsGate == 7

(* Program constants *)

\* the failure-counting window, seconds
WINDOW == 300
\* failures that lock a username, and the length of its lockout
USER_THRESHOLD == 5
USER_LOCKOUT == 1800
\* failures that lock an IP key, and the length of its lockout
IP_THRESHOLD == 10
IP_LOCKOUT == 3600
\* timedelta(hours=8), in seconds
SESSION_TIMEOUT == 28800

----------------------------------------------------------------------------
(* Values *)

\* Python's None in a session field
None == "<None>"
\* login_time before any login
NoTime == -1

EmptyMap == [k \in {} |-> 0]

\* dict.get(key, default)
Get(d, key, default) == IF key \in DOMAIN d THEN d[key] ELSE default

\* d[key] = value on a dict
Put(d, key, value) == (key :> value) @@ d

Sessions == {"s1"}
Usernames == {"admin", "alice", "ip_1.1.1.1"}
Passwords == {"admin", "wonderland"}

\* what get_client_ip can return: the public address, the local address, or
\* "Unknown" when every lookup failed
ClientIPs == {"1.1.1.1", "10.1.2.3", "Unknown"}

MsgIpBlocked == "Access from your IP address is not allowed."
MsgRateLimited == "Too many login attempts. Please try again later."
MsgBadCredentials == "Username or password incorrect"

----------------------------------------------------------------------------
(* hashlib.pbkdf2_hmac('sha256', password, salt, 100000).hex(): a           *)
(* deterministic function of (password, salt), taken to be collision free.  *)
pbkdf2_hmac(password, salt) == <<"pbkdf2-sha256-100000", password, salt>>

\* hmac.compare_digest
compare_digest(a, b) == a = b

\* the default store load_credentials synthesizes when there is no file
default_credentials(default_salt) ==
    Put(EmptyMap, "admin", [password |-> pbkdf2_hmac("admin", default_salt),
                            salt |-> default_salt,
                            role |-> "admin"])

\* a store saved by user management before the process started
SeedCredentials ==
    Put(default_credentials("5f2a"), "alice",
        [password |-> pbkdf2_hmac("wonderland", "c41d"),
         salt |-> "c41d",
         role |-> "analyst"])

NoFile == [exists |-> FALSE, data |-> EmptyMap]
File(data) == [exists |-> TRUE, data |-> data]

\* load_credentials that never reads the file
load_credentials_always_new(f, default_salt) ==
    [credentials |-> default_credentials(default_salt),
     file |-> File(default_credentials(default_salt))]

\* load_credentials of utils/auth.py: the mapping it returns and the file it
\* leaves; without a file it makes the default store and writes it
load_credentials(f, default_salt) ==
    IF f.exists THEN [credentials |-> f.data, file |-> f]
    ELSE [credentials |-> default_credentials(default_salt),
          file |-> File(default_credentials(default_salt))]

NoLog == [exists |-> FALSE, headers |-> 0, rows |-> <<>>]

\* no login callback of the session is between its file accesses
NoRequest ==
    [pc |-> "idle", username |-> None, ip |-> None, current_time |-> 0,
     loaded |-> EmptyMap, file_exists |-> FALSE]

----------------------------------------------------------------------------
(* utils/ip_manager.py *)

\* The text of the strings the policy handles: whether the string contains
\* "/", the dotted numbers before it (<<>> when they do not parse) and the
\* number after it (-1 when there is none or it does not parse).
Lex(s) ==
    CASE s = "1.1.1.1"     -> [slash |-> FALSE, octets |-> <<1, 1, 1, 1>>, prefix |-> -1]
      [] s = "10.1.2.3"    -> [slash |-> FALSE, octets |-> <<10, 1, 2, 3>>, prefix |-> -1]
      [] s = "8.8.8.8"     -> [slash |-> FALSE, octets |-> <<8, 8, 8, 8>>, prefix |-> -1]
      [] s = "10.0.0.0/8"  -> [slash |-> TRUE, octets |-> <<10, 0, 0, 0>>, prefix |-> 8]
      [] s = "1.1.1.0/24"  -> [slash |-> TRUE, octets |-> <<1, 1, 1, 0>>, prefix |-> 24]
      [] s = "10.1.2.3/8"  -> [slash |-> TRUE, octets |-> <<10, 1, 2, 3>>, prefix |-> 8]
      [] s = "10.0.0.0/33" -> [slash |-> TRUE, octets |-> <<10, 0, 0, 0>>, prefix |-> 33]
      [] OTHER             -> [slash |-> FALSE, octets |-> <<>>, prefix |-> -1]

Pow2(n) == IF n = 0 THEN 1 ELSE 2 * (IF n = 1 THEN 1 ELSE 2 ^ (n - 1))

ToInt(o) == ((o[1] * 256 + o[2]) * 256 + o[3]) * 256 + o[4]

ValidOctets(o) == Len(o) = 4 /\ \A i \in 1..4 : o[i] \in 0..255

\* ipaddress.ip_address(s) parses (it raises ValueError otherwise)
ip_address_ok(s) == ~Lex(s).slash /\ ValidOctets(Lex(s).octets)

\* ipaddress.ip_network(s), strict: a prefix of 0..32 and no host bits set
ip_network_ok(s) ==
    LET l == Lex(s) IN
    /\ ValidOctets(l.octets)
    /\ l.slash => l.prefix \in 0..32
    /\ l.slash => ToInt(l.octets) % Pow2(32 - l.prefix) = 0

\* ipaddress.ip_address(ip) in ipaddress.ip_network(net), both parsed
in_network(ip, net) ==
    LET width == IF Lex(net).slash THEN 32 - Lex(net).prefix ELSE 0 IN
    ToInt(Lex(ip).octets) \div Pow2(width) = ToInt(Lex(net).octets) \div Pow2(width)

\* One of the two for-loops of is_ip_allowed, from entry i on: "match" when
\* an entry matches, "nomatch" when the list is exhausted, "ValueError" when
\* parsing raises before any entry matched.
RECURSIVE scan_list(_, _, _)
scan_list(entries, ip, i) ==
    IF i > Len(entries) THEN "nomatch"
    ELSE IF Lex(entries[i]).slash
         THEN IF ~ip_address_ok(ip) \/ ~ip_network_ok(entries[i]) THEN "ValueError"
              ELSE IF in_network(ip, entries[i]) THEN "match"
              ELSE scan_list(entries, ip, i + 1)
         ELSE IF ip = entries[i] THEN "match"
              ELSE scan_list(entries, ip, i + 1)

default_ip_config == [mode |-> "allow_all", allow_list |-> <<>>, deny_list |-> <<>>]

\* the configuration is_ip_allowed evaluates: the file, or the default
load_ip_config(f) == IF f.exists THEN f.data ELSE default_ip_config

\* is_ip_allowed with deny_all evaluated after the lists, as a list mode
is_ip_allowed_lists_first(cfg, ip) ==
    LET mode == Get(cfg, "mode", "allow_all")
        denied == scan_list(Get(cfg, "deny_list", <<>>), ip, 1)
        allowed == scan_list(Get(cfg, "allow_list", <<>>), ip, 1)
    IN  IF ip = "Unknown" THEN "True"
        ELSE IF mode = "allow_all" THEN "True"
        ELSE IF mode \in {"use_lists", "deny_all"}
             THEN IF denied = "match" THEN "False"
                  ELSE IF denied = "ValueError" THEN "ValueError"
                  ELSE IF Get(cfg, "allow_list", <<>>) = <<>> THEN "True"
                  ELSE IF allowed = "match" THEN "True"
                  ELSE IF allowed = "ValueError" THEN "ValueError"
                  ELSE "False"
        ELSE "True"

\* is_ip_allowed on a loaded configuration: "True", "False" or "ValueError"
is_ip_allowed(cfg, ip) ==
    LET mode == Get(cfg, "mode", "allow_all")
        denied == scan_list(Get(cfg, "deny_list", <<>>), ip, 1)
        allowed == scan_list(Get(cfg, "allow_list", <<>>), ip, 1)
    IN  IF ip = "Unknown" THEN "True"
        ELSE IF mode = "allow_all" THEN "True"
        ELSE IF mode = "deny_all" THEN "False"
        ELSE IF mode = "use_lists"
             THEN IF denied = "match" THEN "False"
                  ELSE IF denied = "ValueError" THEN "ValueError"
                  ELSE IF Get(cfg, "allow_list", <<>>) = <<>> THEN "True"
                  ELSE IF allowed = "match" THEN "True"
                  ELSE IF allowed = "ValueError" THEN "ValueError"
                  ELSE "False"
        ELSE "True"

\* a CSV row
Row(username, what, ip) ==
    [timestamp |-> now, username |-> username, activity |-> what, ip |-> ip]

\* open(log_file, "a"): the header when the file is new, then the rows
append_rows(log, new_rows) ==
    [exists |-> TRUE,
     headers |-> IF log.exists THEN log.headers ELSE log.headers + 1,
     rows |-> log.rows \o new_rows]

\* the with-block of a log call whose os.path.isfile gave file_exists
write_rows(log, file_exists, new_rows) ==
    [exists |-> TRUE,
     headers |-> IF file_exists THEN log.headers ELSE log.headers + 1,
     rows |-> log.rows \o new_rows]

\* log_ip_activity, for the activities one handler logs in a row
log_ip_activity(log, username, activities, ip) ==
    IF activities = <<>> THEN log
    ELSE append_rows(log, [i \in 1..Len(activities) |-> Row(username, activities[i], ip)])

----------------------------------------------------------------------------
(* utils/auth.py *)

\* log_login_activity
log_login_activity(log, username, status, ip) ==
    append_rows(log, <<Row(username, status, ip)>>)

ip_key_of(ip) == "ip_" \o ip

\* the rate-limit map as loaded: the file is created holding {} when missing
load_rate_limits(f) == IF f.exists THEN f.data ELSE EmptyMap

\* check_rate_limit without its username check
check_rate_limit_ip_only(rl, username, ip, current_time) ==
    ~(ip_key_of(ip) \in DOMAIN rl
      /\ current_time < Get(rl[ip_key_of(ip)], "reset_time", 0))

\* check_rate_limit taking every reset_time for a lock, whatever the time
check_rate_limit_sticky(rl, username, ip, current_time) ==
    /\ ~(username \in DOMAIN rl /\ "reset_time" \in DOMAIN rl[username])
    /\ ~(ip_key_of(ip) \in DOMAIN rl /\ "reset_time" \in DOMAIN rl[ip_key_of(ip)])

\* check_rate_limit on the loaded map: TRUE when the login may be attempted
check_rate_limit(rl, username, ip, current_time) ==
    /\ ~(username \in DOMAIN rl /\ current_time < Get(rl[username], "reset_time", 0))
    /\ ~(ip_key_of(ip) \in DOMAIN rl
         /\ current_time < Get(rl[ip_key_of(ip)], "reset_time", 0))

\* the window restarted by a failure
fresh_window(current_time) ==
    [attempts |-> 1, window_end |-> current_time + WINDOW]

\* counting that reopens the window on the old entry instead of replacing it
count_failure_accumulating(rl, key, current_time, threshold, lockout) ==
    IF key \in DOMAIN rl
    THEN LET n == Get(rl[key], "attempts", 0) + 1
             counted == Put(rl[key], "attempts", n)
             kept == IF current_time > Get(rl[key], "window_end", 0)
                     THEN Put(counted, "window_end", current_time + WINDOW)
                     ELSE counted
         IN  IF n >= threshold
             THEN [entry |-> Put(kept, "reset_time", current_time + lockout),
                   limited |-> TRUE]
             ELSE [entry |-> kept, limited |-> FALSE]
    ELSE [entry |-> fresh_window(current_time), limited |-> FALSE]

\* the entry of `key` after one failure is counted against it, with the
\* given threshold and lockout; limited: the threshold branch was taken
count_failure(rl, key, current_time, threshold, lockout) ==
    IF key \in DOMAIN rl
    THEN IF current_time > Get(rl[key], "window_end", 0)
         THEN [entry |-> fresh_window(current_time), limited |-> FALSE]
         ELSE LET n == Get(rl[key], "attempts", 0) + 1
                  counted == Put(rl[key], "attempts", n)
              IN  IF n >= threshold
                  THEN [entry |-> Put(counted, "reset_time", current_time + lockout),
                        limited |-> TRUE]
                  ELSE [entry |-> counted, limited |-> FALSE]
    ELSE [entry |-> fresh_window(current_time), limited |-> FALSE]

\* the username branch locking one failure late
update_username_late(rl, username, current_time) ==
    count_failure(rl, username, current_time, USER_THRESHOLD + 1, USER_LOCKOUT)

\* "Update username attempts"
update_username(rl, username, current_time) ==
    count_failure(rl, username, current_time, USER_THRESHOLD, USER_LOCKOUT)

\* the IP branch with the username's lockout
update_ip_short(rl, ip, current_time) ==
    count_failure(rl, ip_key_of(ip), current_time, IP_THRESHOLD, USER_LOCKOUT)

\* "Update IP attempts"
update_ip(rl, ip, current_time) ==
    count_failure(rl, ip_key_of(ip), current_time, IP_THRESHOLD, IP_LOCKOUT)

\* increment_failed_attempts on the loaded map: the map it saves and the
\* activities it logs on the way
increment_failed_attempts(rl, username, ip, current_time) ==
    LET u == update_username(rl, username, current_time)
        rl1 == Put(rl, username, u.entry)
        a == update_ip(rl1, ip, current_time)
        rl2 == Put(rl1, ip_key_of(ip), a.entry)
    IN  [map |-> rl2,
         logged |-> (IF u.limited THEN <<"rate_limited_user">> ELSE <<>>)
                    \o (IF a.limited THEN <<"rate_limited_ip">> ELSE <<>>)]

\* the credential check without the comparison of the hashes
credentials_ok_any_password(creds, username, password) ==
    username \in DOMAIN creds

\* the credentials match: the username is stored and the hash of the
\* entered password with the stored salt equals the stored hash
credentials_ok(creds, username, password) ==
    /\ username \in DOMAIN creds
    /\ compare_digest(pbkdf2_hmac(password, creds[username].salt),
                      creds[username].password)

\* initialize_session_state
initialize_session_state ==
    [authenticated |-> FALSE, username |-> None, password |-> None,
     user_role |-> None, login_time |-> NoTime, ip_address |-> None,
     authentication_error |-> None]

\* the checks with the rate limit consulted before the IP policy
gate_outcome_rate_first(allowed, rate_ok, creds_ok) ==
    IF ~rate_ok THEN "rate_limited"
    ELSE IF allowed = "ValueError" THEN "raised"
    ELSE IF allowed = "False" THEN "ip_blocked"
    ELSE IF creds_ok THEN "authenticated"
    ELSE "bad_credentials"

\* The order of the checks of password_entered, on what each check returned:
\* the IP policy first, then the rate limit, then the credentials.
gate_outcome(allowed, rate_ok, creds_ok) ==
    IF allowed = "ValueError" THEN "raised"
    ELSE IF allowed = "False" THEN "ip_blocked"
    ELSE IF ~rate_ok THEN "rate_limited"
    ELSE IF creds_ok THEN "authenticated"
    ELSE "bad_credentials"

\* the map with the username's entry dropped by a successful login
saved_rate_limits_reset(outcome, rl, username, ip, current_time) ==
    IF outcome = "bad_credentials"
    THEN increment_failed_attempts(rl, username, ip, current_time).map
    ELSE IF outcome = "authenticated"
         THEN [k \in DOMAIN rl \ {username} |-> rl[k]]
         ELSE rl

\* The rate-limit map after a callback that got as far as check_rate_limit:
\* only a failed login calls increment_failed_attempts.
saved_rate_limits(outcome, rl, username, ip, current_time) ==
    IF outcome = "bad_credentials"
    THEN increment_failed_attempts(rl, username, ip, current_time).map
    ELSE rl

\* The login form's callback.  The form's widgets have already written the
\* entered username and password into the session; ip is what
\* get_client_ip returned.  The form is rendered only for a session that is
\* not authenticated.
password_entered(s, username, password, ip) ==
    LET entered == [session[s] EXCEPT !.username = username, !.password = password]
        rl == load_rate_limits(rate_limits)
        outcome == gate_outcome(is_ip_allowed(load_ip_config(ip_config), ip),
                                check_rate_limit(rl, username, ip, now),
                                credentials_ok(USER_CREDENTIALS, username, password))
        failed == increment_failed_attempts(rl, username, ip, now)
    IN
    /\ ~session[s].authenticated
    /\ ip_config' = File(load_ip_config(ip_config))
    /\ rate_limits' = IF outcome \in {"raised", "ip_blocked"}
                      THEN rate_limits
                      ELSE File(saved_rate_limits(outcome, rl, username, ip, now))
    /\ UNCHANGED <<now, credentials_file, USER_CREDENTIALS, panel_rate_limits, requests>>
    /\ CASE outcome = "raised" ->
              \* is_ip_allowed raised: the callback ends there
              /\ session' = [session EXCEPT ![s] = entered]
              /\ UNCHANGED <<login_activity, ip_activity>>
         [] outcome = "ip_blocked" ->
              /\ session' = [session EXCEPT ![s] =
                     [entered EXCEPT !.authentication_error = MsgIpBlocked]]
              /\ ip_activity' = log_ip_activity(ip_activity, username, <<"blocked_ip">>, ip)
              /\ UNCHANGED login_activity
         [] outcome = "rate_limited" ->
              /\ session' = [session EXCEPT ![s] =
                     [entered EXCEPT !.authentication_error = MsgRateLimited]]
              /\ ip_activity' = log_ip_activity(ip_activity, username, <<"rate_limited">>, ip)
              /\ UNCHANGED login_activity
         [] outcome = "authenticated" ->
              /\ session' = [session EXCEPT ![s] =
                     [entered EXCEPT !.authenticated = TRUE,
                                     !.username = username,
                                     !.user_role = USER_CREDENTIALS[username].role,
                                     !.login_time = now,
                                     !.ip_address = ip]]
              /\ login_activity' = log_login_activity(login_activity, username, "success", ip)
              /\ ip_activity' = log_ip_activity(ip_activity, username,
                                                <<"successful_login">>, ip)
         [] outcome = "bad_credentials" ->
              /\ session' = [session EXCEPT ![s] =
                     [entered EXCEPT !.authenticated = FALSE,
                                     !.authentication_error = MsgBadCredentials]]
              /\ login_activity' = log_login_activity(login_activity, username, "failed", ip)
              /\ ip_activity' = log_ip_activity(ip_activity, username,
                                                <<"failed_login">> \o failed.logged, ip)

\* what the callback answers without counting a username it does not know
login_response_unknown_uncounted(creds, s, username, password, ip) ==
    LET rl == load_rate_limits(rate_limits)
        outcome == gate_outcome(is_ip_allowed(load_ip_config(ip_config), ip),
                                check_rate_limit(rl, username, ip, now),
                                credentials_ok(creds, username, password))
        failed == increment_failed_attempts(rl, username, ip, now)
        counted == outcome = "bad_credentials" /\ username \in DOMAIN creds
    IN  [authenticated |-> outcome = "authenticated",
         message |-> CASE outcome = "raised" -> session[s].authentication_error
                       [] outcome = "ip_blocked" -> MsgIpBlocked
                       [] outcome = "rate_limited" -> MsgRateLimited
                       [] outcome = "authenticated" -> session[s].authentication_error
                       [] outcome = "bad_credentials" -> MsgBadCredentials,
         login_activity |->
             CASE outcome = "authenticated" ->
                      log_login_activity(login_activity, username, "success", ip)
               [] outcome = "bad_credentials" ->
                      log_login_activity(login_activity, username, "failed", ip)
               [] OTHER -> login_activity,
         ip_activity |->
             CASE outcome = "raised" -> ip_activity
               [] outcome = "ip_blocked" ->
                      log_ip_activity(ip_activity, username, <<"blocked_ip">>, ip)
               [] outcome = "rate_limited" ->
                      log_ip_activity(ip_activity, username, <<"rate_limited">>, ip)
               [] outcome = "authenticated" ->
                      log_ip_activity(ip_activity, username, <<"successful_login">>, ip)
               [] outcome = "bad_credentials" ->
                      log_ip_activity(ip_activity, username,
                                      <<"failed_login">>
                                         \o (IF counted THEN failed.logged ELSE <<>>), ip),
         rate_limits |->
             IF outcome \in {"raised", "ip_blocked"} THEN rate_limits
             ELSE IF counted THEN File(failed.map)
             ELSE File(rl)]

\* What password_entered answers for the entered username and password from
\* the address, as a function of the store it looks the username up in: the
\* message left for the page, whether the session is authenticated, and the
\* two logs and the rate-limit file as it leaves them.
login_response(creds, s, username, password, ip) ==
    LET rl == load_rate_limits(rate_limits)
        outcome == gate_outcome(is_ip_allowed(load_ip_config(ip_config), ip),
                                check_rate_limit(rl, username, ip, now),
                                credentials_ok(creds, username, password))
        failed == increment_failed_attempts(rl, username, ip, now)
    IN  [authenticated |-> outcome = "authenticated",
         message |-> CASE outcome = "raised" -> session[s].authentication_error
                       [] outcome = "ip_blocked" -> MsgIpBlocked
                       [] outcome = "rate_limited" -> MsgRateLimited
                       [] outcome = "authenticated" -> session[s].authentication_error
                       [] outcome = "bad_credentials" -> MsgBadCredentials,
         login_activity |->
             CASE outcome = "authenticated" ->
                      log_login_activity(login_activity, username, "success", ip)
               [] outcome = "bad_credentials" ->
                      log_login_activity(login_activity, username, "failed", ip)
               [] OTHER -> login_activity,
         ip_activity |->
             CASE outcome = "raised" -> ip_activity
               [] outcome = "ip_blocked" ->
                      log_ip_activity(ip_activity, username, <<"blocked_ip">>, ip)
               [] outcome = "rate_limited" ->
                      log_ip_activity(ip_activity, username, <<"rate_limited">>, ip)
               [] outcome = "authenticated" ->
                      log_ip_activity(ip_activity, username, <<"successful_login">>, ip)
               [] outcome = "bad_credentials" ->
                      log_ip_activity(ip_activity, username,
                                      <<"failed_login">> \o failed.logged, ip),
         rate_limits |->
             IF outcome \in {"raised", "ip_blocked"} THEN rate_limits
             ELSE File(saved_rate_limits(outcome, rl, username, ip, now))]

(* The failing callback in two steps, for sessions whose callbacks run at   *)
(* the same time (one script thread per session, no lock on the file):     *)
(* the callback up to json.load in increment_failed_attempts, and the      *)
(* rest of it from there to json.dump and the error message.               *)

\* password_entered of a login that fails, up to the map being loaded
failed_login_begin(s, username, password, ip) ==
    LET entered == [session[s] EXCEPT !.username = username, !.password = password]
        rl == load_rate_limits(rate_limits)
        outcome == gate_outcome(is_ip_allowed(load_ip_config(ip_config), ip),
                                check_rate_limit(rl, username, ip, now),
                                credentials_ok(USER_CREDENTIALS, username, password))
    IN
    /\ ~session[s].authenticated
    /\ requests[s].pc = "idle"
    /\ outcome = "bad_credentials"
    /\ ip_config' = File(load_ip_config(ip_config))
    /\ rate_limits' = File(rl)
    /\ session' = [session EXCEPT ![s] = [entered EXCEPT !.authenticated = FALSE]]
    /\ login_activity' = log_login_activity(login_activity, username, "failed", ip)
    /\ ip_activity' = log_ip_activity(ip_activity, username, <<"failed_login">>, ip)
    /\ requests' = [requests EXCEPT ![s] =
          [pc |-> "loaded", username |-> username, ip |-> ip,
           current_time |-> now, loaded |-> rl, file_exists |-> FALSE]]
    /\ UNCHANGED <<now, credentials_file, USER_CREDENTIALS, panel_rate_limits>>

\* the rest of the callback counting on the file as it is when it writes
failed_login_end_rereading(s) ==
    LET r == requests[s]
        failed == increment_failed_attempts(load_rate_limits(rate_limits),
                                            r.username, r.ip, r.current_time)
    IN
    /\ r.pc = "loaded"
    /\ rate_limits' = File(failed.map)
    /\ ip_activity' = log_ip_activity(ip_activity, r.username, failed.logged, r.ip)
    /\ session' = [session EXCEPT ![s] =
          [session[s] EXCEPT !.authentication_error = MsgBadCredentials]]
    /\ requests' = [requests EXCEPT ![s] = NoRequest]
    /\ UNCHANGED <<now, credentials_file, USER_CREDENTIALS, ip_config,
                   login_activity, panel_rate_limits>>

\* the rest of the callback: the loaded map is updated and written over the
\* file, and the error message is set
failed_login_end(s) ==
    LET r == requests[s]
        failed == increment_failed_attempts(r.loaded, r.username, r.ip, r.current_time)
    IN
    /\ r.pc = "loaded"
    /\ rate_limits' = File(failed.map)
    /\ ip_activity' = log_ip_activity(ip_activity, r.username, failed.logged, r.ip)
    /\ session' = [session EXCEPT ![s] =
          [session[s] EXCEPT !.authentication_error = MsgBadCredentials]]
    /\ requests' = [requests EXCEPT ![s] = NoRequest]
    /\ UNCHANGED <<now, credentials_file, USER_CREDENTIALS, ip_config,
                   login_activity, panel_rate_limits>>

(* The failing callback in two steps around the first log call: up to     *)
(* os.path.isfile(log_file) in log_login_activity, and from the open of    *)
(* the log to the end of the callback.                                      *)

\* password_entered of a login that fails, up to file_exists being read
failed_login_isfile(s, username, password, ip) ==
    LET entered == [session[s] EXCEPT !.username = username, !.password = password]
        rl == load_rate_limits(rate_limits)
        outcome == gate_outcome(is_ip_allowed(load_ip_config(ip_config), ip),
                                check_rate_limit(rl, username, ip, now),
                                credentials_ok(USER_CREDENTIALS, username, password))
    IN
    /\ ~session[s].authenticated
    /\ requests[s].pc = "idle"
    /\ outcome = "bad_credentials"
    /\ ip_config' = File(load_ip_config(ip_config))
    /\ rate_limits' = File(rl)
    /\ session' = [session EXCEPT ![s] = [entered EXCEPT !.authenticated = FALSE]]
    /\ requests' = [requests EXCEPT ![s] =
          [pc |-> "logging", username |-> username, ip |-> ip,
           current_time |-> now, loaded |-> EmptyMap,
           file_exists |-> login_activity.exists]]
    /\ UNCHANGED <<now, credentials_file, USER_CREDENTIALS, login_activity,
                   ip_activity, panel_rate_limits>>

\* the rest of the callback: the row (and the header, when file_exists was
\* false) is appended, the failure is logged to the IP log and counted, and
\* the error message is set
failed_login_write(s) ==
    LET r == requests[s]
        failed == increment_failed_attempts(load_rate_limits(rate_limits),
                                            r.username, r.ip, r.current_time)
    IN
    /\ r.pc = "logging"
    /\ login_activity' = write_rows(login_activity, r.file_exists,
                                    <<Row(r.username, "failed", r.ip)>>)
    /\ ip_activity' = log_ip_activity(ip_activity, r.username,
                                      <<"failed_login">> \o failed.logged, r.ip)
    /\ rate_limits' = File(failed.map)
    /\ session' = [session EXCEPT ![s] =
          [session[s] EXCEPT !.authentication_error = MsgBadCredentials]]
    /\ requests' = [requests EXCEPT ![s] = NoRequest]
    /\ UNCHANGED <<now, credentials_file, USER_CREDENTIALS, ip_config,
                   panel_rate_limits>>

\* check_password ending the session at eight hours sharp
check_password_returns_at_timeout(s) ==
    IF session[s].authenticated
    THEN IF now - session[s].login_time >= SESSION_TIMEOUT THEN FALSE ELSE TRUE
    ELSE FALSE

\* what check_password returns to the page
check_password_returns(s) ==
    IF session[s].authenticated
    THEN IF now - session[s].login_time > SESSION_TIMEOUT THEN FALSE ELSE TRUE
    ELSE FALSE

\* The body of check_password on a page run: an authenticated session is
\* expired after 8 hours; otherwise a pending error is shown and removed.
check_password(s) ==
    /\ session' = [session EXCEPT ![s] =
          IF session[s].authenticated
          THEN IF now - session[s].login_time > SESSION_TIMEOUT
               THEN [session[s] EXCEPT !.authenticated = FALSE]
               ELSE session[s]
          ELSE [session[s] EXCEPT !.authentication_error = None]]
    /\ UNCHANGED <<now, credentials_file, USER_CREDENTIALS, ip_config, rate_limits,
                   login_activity, ip_activity, panel_rate_limits, requests>>

\* logout, the callback of the sidebar button of an authenticated page
logout(s) ==
    /\ session[s].authenticated
    /\ ip_activity' = log_ip_activity(ip_activity, session[s].username, <<"logout">>,
                                      session[s].ip_address)
    /\ session' = [session EXCEPT ![s] =
          [session[s] EXCEPT !.authenticated = FALSE,
                             !.username = None,
                             !.user_role = None,
                             !.ip_address = None]]
    /\ UNCHANGED <<now, credentials_file, USER_CREDENTIALS, ip_config, rate_limits,
                   login_activity, panel_rate_limits, requests>>

\* The process starts again: utils.auth is imported anew, so
\* load_credentials runs, and every st.session_state is gone.  The files
\* stay.
restart(default_salt) ==
    LET loaded == load_credentials(credentials_file, default_salt) IN
    /\ USER_CREDENTIALS' = loaded.credentials
    /\ credentials_file' = loaded.file
    /\ session' = [s \in DOMAIN session |-> initialize_session_state]
    /\ requests' = [s \in DOMAIN requests |-> NoRequest]
    /\ UNCHANGED <<now, ip_config, rate_limits, login_activity, ip_activity,
                   panel_rate_limits>>

\* time passes
Advance(d) ==
    /\ now' = now + d
    /\ UNCHANGED <<credentials_file, USER_CREDENTIALS, ip_config, rate_limits,
                   login_activity, ip_activity, session, panel_rate_limits, requests>>

----------------------------------------------------------------------------
(* pages/user_management.py *)

MsgAlreadyExists == "Username already exists."
MsgNotFound == "Username does not exist."
MsgLastAdminDelete == "Cannot delete the last admin account."
MsgLastAdminRole == "Cannot change role for the last admin account."
MsgOwnAccount == "You cannot delete your own account. Please ask another admin to do this."

\* load_credentials_from_file: the mapping it returns and the file it leaves
load_credentials_from_file(f, default_salt) ==
    IF f.exists THEN [credentials |-> f.data, file |-> f]
    ELSE [credentials |-> default_credentials(default_salt),
          file |-> File(default_credentials(default_salt))]

\* ensure_credentials_in_session and load_credentials of the page: the
\* session's copy, read from the file only when the session has none yet
session_credentials(s, default_salt) ==
    IF "credentials_data" \in DOMAIN session[s]
    THEN [credentials |-> session[s].credentials_data, file |-> credentials_file]
    ELSE load_credentials_from_file(credentials_file, default_salt)

\* sum(1 for user, data in credentials.items() if data["role"] == "admin")
admin_count(credentials) ==
    Cardinality({u \in DOMAIN credentials : credentials[u].role = "admin"})

\* del credentials[username]
Del(d, key) == [k \in DOMAIN d \ {key} |-> d[k]]

\* the four operations on the mapping load_credentials returned: whether
\* save_credentials was reached, the message, and the mapping afterwards
add_user(credentials, username, password, role, salt) ==
    IF username \in DOMAIN credentials
    THEN [saved |-> FALSE, message |-> MsgAlreadyExists, credentials |-> credentials]
    ELSE [saved |-> TRUE, message |-> "User added successfully.",
          credentials |-> Put(credentials, username,
                              [password |-> pbkdf2_hmac(password, salt),
                               salt |-> salt,
                               role |-> role])]

delete_user(credentials, username) ==
    IF username \notin DOMAIN credentials
    THEN [saved |-> FALSE, message |-> MsgNotFound, credentials |-> credentials]
    ELSE IF credentials[username].role = "admin" /\ admin_count(credentials) <= 1
    THEN [saved |-> FALSE, message |-> MsgLastAdminDelete, credentials |-> credentials]
    ELSE [saved |-> TRUE, message |-> "User deleted successfully.",
          credentials |-> Del(credentials, username)]

change_role(credentials, username, new_role) ==
    IF username \notin DOMAIN credentials
    THEN [saved |-> FALSE, message |-> MsgNotFound, credentials |-> credentials]
    ELSE IF credentials[username].role = "admin" /\ new_role # "admin"
            /\ admin_count(credentials) <= 1
    THEN [saved |-> FALSE, message |-> MsgLastAdminRole, credentials |-> credentials]
    ELSE [saved |-> TRUE, message |-> "User role changed successfully.",
          credentials |-> [credentials EXCEPT ![username].role = new_role]]

reset_password(credentials, username, new_password, salt) ==
    IF username \notin DOMAIN credentials
    THEN [saved |-> FALSE, message |-> MsgNotFound, credentials |-> credentials]
    ELSE [saved |-> TRUE, message |-> "Password reset successfully.",
          credentials |-> [credentials EXCEPT
                              ![username].password = pbkdf2_hmac(new_password, salt),
                              ![username].salt = salt]]

\* the page guard without its role check
admin_page_any_role(s) ==
    /\ session[s].authenticated
    /\ now - session[s].login_time <= SESSION_TIMEOUT

\* check_password() returned True and the role check of the page passed
admin_page(s) ==
    /\ session[s].authenticated
    /\ now - session[s].login_time <= SESSION_TIMEOUT
    /\ session[s].user_role = "admin"

\* One run of the user-management page in which an operation is submitted:
\* the page view is logged, the session's copy is loaded if there is none,
\* the operation works on that copy, save_credentials writes the whole copy
\* to the file, and st.rerun() runs the page (and logs the view) once more.
page_run(s, loaded, result, rerun) ==
    /\ admin_page(s)
    /\ requests[s].pc = "idle"
    /\ session' = [session EXCEPT ![s] =
                      Put(session[s], "credentials_data", result.credentials)]
    /\ credentials_file' = IF result.saved THEN File(result.credentials) ELSE loaded.file
    /\ ip_activity' = log_ip_activity(ip_activity, session[s].username,
                           IF result.saved /\ rerun
                           THEN <<"page_view_user_management", "page_view_user_management">>
                           ELSE <<"page_view_user_management">>,
                           session[s].ip_address)
    /\ UNCHANGED <<now, USER_CREDENTIALS, ip_config, rate_limits, login_activity,
                   panel_rate_limits, requests>>

\* a run of the page with nothing submitted: the user list is rendered
view_users(s, default_salt) ==
    LET loaded == session_credentials(s, default_salt) IN
    page_run(s, loaded,
             [saved |-> FALSE, message |-> None, credentials |-> loaded.credentials],
             FALSE)

\* the "Add User" form, submitted with a username and a confirmed password
add_user_form(s, username, password, role, salt, default_salt) ==
    LET loaded == session_credentials(s, default_salt) IN
    page_run(s, loaded, add_user(loaded.credentials, username, password, role, salt), TRUE)

\* the "Delete User" button, for a username of the select box (the names of
\* the session's copy): the own account is refused by the page
delete_user_button(s, username, default_salt) ==
    LET loaded == session_credentials(s, default_salt) IN
    /\ username \in DOMAIN loaded.credentials
    /\ page_run(s, loaded,
             IF username = session[s].username
             THEN [saved |-> FALSE, message |-> MsgOwnAccount,
                   credentials |-> loaded.credentials]
             ELSE delete_user(loaded.credentials, username),
             TRUE)

\* the "Change Role" form, for a username of the select box: nothing is
\* called when the role is the current one
change_role_form(s, username, new_role, default_salt) ==
    LET loaded == session_credentials(s, default_salt) IN
    /\ username \in DOMAIN loaded.credentials
    /\ page_run(s, loaded,
             IF loaded.credentials[username].role = new_role
             THEN [saved |-> FALSE, message |-> "No change needed",
                   credentials |-> loaded.credentials]
             ELSE change_role(loaded.credentials, username, new_role),
             TRUE)

\* the "Reset Password" form, for a username of the select box, submitted
\* with a confirmed password (no rerun)
reset_password_form(s, username, new_password, salt, default_salt) ==
    LET loaded == session_credentials(s, default_salt) IN
    /\ username \in DOMAIN loaded.credentials
    /\ page_run(s, loaded, reset_password(loaded.credentials, username, new_password, salt),
             FALSE)

(* save_credentials in two steps, for sessions whose page runs overlap:    *)
(* open(credentials_path, "w") truncates the file, json.dump and the close *)
(* of the with-block fill it.  A json.load of another session in between   *)
(* reads a file that is not JSON, and load_credentials_from_file answers   *)
(* that error, like every error but file-not-found, with {}.               *)

\* some session is between the open and the close of its save
credentials_being_written == \E x \in DOMAIN requests : requests[x].pc = "saving"

\* load_credentials_from_file while another session may be writing
load_credentials_from_file_racing(default_salt) ==
    IF credentials_being_written
    THEN [credentials |-> EmptyMap, file |-> credentials_file]
    ELSE load_credentials_from_file(credentials_file, default_salt)

\* a run of the page with nothing submitted, while another session may be
\* writing the file
view_users_racing(s, default_salt) ==
    LET loaded == IF "credentials_data" \in DOMAIN session[s]
                  THEN [credentials |-> session[s].credentials_data,
                        file |-> credentials_file]
                  ELSE load_credentials_from_file_racing(default_salt)
    IN  page_run(s, loaded,
                 [saved |-> FALSE, message |-> None, credentials |-> loaded.credentials],
                 FALSE)

\* the "Add User" form of a session that has its copy, for a username the
\* copy does not hold, up to the open of the file in save_credentials
add_user_open(s, username, password, role, salt) ==
    LET result == add_user(session[s].credentials_data, username, password, role, salt)
    IN
    /\ admin_page(s)
    /\ requests[s].pc = "idle"
    /\ ~credentials_being_written
    /\ "credentials_data" \in DOMAIN session[s]
    /\ result.saved
    /\ session' = [session EXCEPT ![s] =
                      Put(session[s], "credentials_data", result.credentials)]
    /\ credentials_file' = File(EmptyMap)
    /\ requests' = [requests EXCEPT ![s] =
          [pc |-> "saving", username |-> username, ip |-> None, current_time |-> now,
           loaded |-> result.credentials, file_exists |-> TRUE]]
    /\ ip_activity' = log_ip_activity(ip_activity, session[s].username,
                                      <<"page_view_user_management">>,
                                      session[s].ip_address)
    /\ UNCHANGED <<now, USER_CREDENTIALS, ip_config, rate_limits, login_activity,
                   panel_rate_limits>>

\* json.dump and the close of the file; st.rerun() runs the page once more
save_credentials_close(s) ==
    /\ requests[s].pc = "saving"
    /\ credentials_file' = File(requests[s].loaded)
    /\ requests' = [requests EXCEPT ![s] = NoRequest]
    /\ ip_activity' = log_ip_activity(ip_activity, session[s].username,
                                      <<"page_view_user_management">>,
                                      session[s].ip_address)
    /\ UNCHANGED <<now, USER_CREDENTIALS, ip_config, rate_limits, login_activity,
                   session, panel_rate_limits>>

----------------------------------------------------------------------------
(* pages/admin_panel.py *)

\* The "Clear All Rate Limits" button of the System Logs tab.  The tab reads
\* logs/rate_limits.json of the working directory and renders the button
\* only when that file exists and holds entries; the button writes {} to
\* that file and reruns the page.  The page view is logged on each run.
clear_all_rate_limits(s) ==
    /\ admin_page(s)
    /\ requests[s].pc = "idle"
    /\ panel_rate_limits.exists
    /\ panel_rate_limits.data # EmptyMap
    /\ panel_rate_limits' = File(EmptyMap)
    /\ ip_activity' = log_ip_activity(ip_activity, session[s].username,
                                      <<"page_view_admin", "page_view_admin">>,
                                      session[s].ip_address)
    /\ UNCHANGED <<now, credentials_file, USER_CREDENTIALS, ip_config, rate_limits,
                   login_activity, session, requests>>

\* the modes of the "IP Access Mode" radio
PanelModes == {"allow_all", "deny_all", "use_lists"}

\* The "Save IP Configuration" button of the IP Management tab.  The tab
\* loads ip_config.json (the default when there is none), the radio sets the
\* mode, the two text areas, shown under use_lists only, set the lists, and
\* the button writes the configuration.  The radio cannot be rendered for a
\* stored mode that is not one of its three.
save_ip_configuration(s, mode, allow_list, deny_list) ==
    LET loaded == load_ip_config(ip_config)
        chosen == Put(loaded, "mode", mode)
        saved == IF mode = "use_lists"
                 THEN Put(Put(chosen, "allow_list", allow_list), "deny_list", deny_list)
                 ELSE chosen
    IN
    /\ admin_page(s)
    /\ requests[s].pc = "idle"
    /\ Get(loaded, "mode", "allow_all") \in PanelModes
    /\ mode \in PanelModes
    /\ ip_config' = File(saved)
    /\ ip_activity' = log_ip_activity(ip_activity, session[s].username,
                                      <<"page_view_admin">>, session[s].ip_address)
    /\ UNCHANGED <<now, credentials_file, USER_CREDENTIALS, rate_limits,
                   login_activity, session, panel_rate_limits, requests>>

----------------------------------------------------------------------------------------------------------------------------------------
(* Specifications.  Each draws the login form's inputs from its own sets;   *)
(* the activity streams are kept whole, so the number of rows bounds a run. *)

\* a configuration the admin panel has saved that denies 10.0.0.0/8
DenyTenNet == [mode |-> "use_lists", allow_list |-> <<>>, deny_list |-> <<"10.0.0.0/8">>]

\* configurations the admin panel can have saved
SavedPolicies ==
    { [mode |-> "deny_all", allow_list |-> <<>>, deny_list |-> <<>>],
      DenyTenNet,
      [mode |-> "use_lists", allow_list |-> <<"1.1.1.0/24">>, deny_list |-> <<"1.1.1.1">>],
      [mode |-> "use_lists", allow_list |-> <<>>, deny_list |-> <<"10.0.0.0/33">>] }

\* the state after construction: load_credentials has run at import, no
\* login was attempted yet, and ip_config.json is as the administrator left it
InitWith(policies) ==
    /\ now = 0
    /\ credentials_file = File(SeedCredentials)
    /\ USER_CREDENTIALS = SeedCredentials
    /\ ip_config \in policies
    /\ rate_limits = NoFile
    /\ login_activity = NoLog
    /\ ip_activity = NoLog
    /\ session = [s \in Sessions |-> initialize_session_state]
    /\ panel_rate_limits = NoFile
    /\ requests = [s \in Sessions |-> NoRequest]

RowsLeft(n) == Len(ip_activity.rows) < n

PageRun == \E s \in Sessions : check_password(s)

(* The general specification: every username, password and address, from    *)
(* every IP configuration, for runs of a few login attempts.                *)

Init == InitWith({NoFile} \cup {File(p) : p \in SavedPolicies})

Login ==
    \E s \in Sessions, username \in Usernames, password \in Passwords, ip \in ClientIPs :
        RowsLeft(MaxRows) /\ password_entered(s, username, password, ip)

Logout == \E s \in Sessions : RowsLeft(MaxRows) /\ logout(s)

Tick == now + 400 <= MaxTime /\ Advance(400)

Next == Login \/ PageRun \/ Logout \/ Tick

Spec == Init /\ [][Next]_vars

(* The username lockout: one user with her right and a wrong password from  *)
(* one address, for runs long enough to lock her, with time passing.        *)

InitUserLock == InitWith({NoFile})

LoginAlice ==
    \E s \in Sessions, password \in {"wonderland", "wrong"} :
        RowsLeft(MaxRowsLock) /\ password_entered(s, "alice", password, "1.1.1.1")

LogoutAlice == \E s \in Sessions : RowsLeft(MaxRowsLock) /\ logout(s)

TickLock == \E d \in {150, 300} : now + d <= MaxTime /\ Advance(d)

NextUserLock == LoginAlice \/ PageRun \/ LogoutAlice \/ TickLock

SpecUserLock == InitUserLock /\ [][NextUserLock]_vars

(* The IP lockout: wrong passwords for two users from one address, for runs  *)
(* long enough to lock the address.                                         *)

InitIPLock == InitWith({NoFile})

LoginWrong ==
    \E s \in Sessions, username \in {"alice", "admin"} :
        RowsLeft(MaxRowsIP) /\ password_entered(s, username, "wrong", "1.1.1.1")

TickIP == now + 400 <= MaxTime /\ Advance(400)

NextIPLock == LoginWrong \/ PageRun \/ TickIP

SpecIPLock == InitIPLock /\ [][NextIPLock]_vars

(* The locked gate: one user with her right and a wrong password, from an   *)
(* address the saved policy allows and one it denies, and the time of one   *)
(* username lockout.                                                        *)

InitGate == InitWith({File(DenyTenNet)})

LoginGate ==
    \E s \in Sessions, password \in {"wonderland", "wrong"}, ip \in {"1.1.1.1", "10.1.2.3"} :
        RowsLeft(MaxRowsGate) /\ password_entered(s, "alice", password, ip)

LogoutGate == \E s \in Sessions : RowsLeft(MaxRowsGate) /\ logout(s)

TickGate == now + USER_LOCKOUT <= MaxTimeGate /\ Advance(USER_LOCKOUT)

NextGate == LoginGate \/ PageRun \/ LogoutGate \/ TickGate

SpecGate == InitGate /\ [][NextGate]_vars

(* The counting window: wrong passwords for one user from one address,     *)
(* over the time of a window and of a username lockout.                     *)

MaxTimeWindow == 2100

MaxRowsWindow == 7

InitWindow == InitWith({NoFile})

LoginWindow ==
    \E s \in Sessions :
        RowsLeft(MaxRowsWindow) /\ password_entered(s, "alice", "wrong", "1.1.1.1")

TickWindow ==
    \E d \in {WINDOW, USER_LOCKOUT - WINDOW} : now + d <= MaxTimeWindow /\ Advance(d)

NextWindow == LoginWindow \/ PageRun \/ TickWindow

SpecWindow == InitWindow /\ [][NextWindow]_vars

(* The end of a lockout: one user with her right and a wrong password from  *)
(* one address, and the clock moved to the end of a username lockout and    *)
(* one second past it.                                                      *)

MaxTimeExpiry == 1801

MaxRowsExpiry == 7

InitExpiry == InitWith({NoFile})

LoginExpiry ==
    \E s \in Sessions, password \in {"wonderland", "wrong"} :
        RowsLeft(MaxRowsExpiry) /\ password_entered(s, "alice", password, "1.1.1.1")

LogoutExpiry == \E s \in Sessions : RowsLeft(MaxRowsExpiry) /\ logout(s)

TickExpiry ==
    \E d \in {USER_LOCKOUT, USER_LOCKOUT + 1} : now + d <= MaxTimeExpiry /\ Advance(d)

NextExpiry == LoginExpiry \/ PageRun \/ LogoutExpiry \/ TickExpiry

SpecExpiry == InitExpiry /\ [][NextExpiry]_vars

(* The IP policy: every stored configuration of a few entries, and the     *)
(* administrator logging in from every kind of address string.              *)

MaxEntries == 1

MaxRowsPolicy == 2

PolicyModes == {"allow_all", "deny_all", "use_lists", "maintenance"}

PolicyEntries == {"1.1.1.1", "1.1.1.0/24", "10.0.0.0/8", "10.1.2.3/8", "10.0.0.0/33"}

EntryLists == UNION {[1..n -> PolicyEntries] : n \in 0..MaxEntries}

PolicySpace ==
    {[mode |-> m, allow_list |-> a, deny_list |-> d] :
        m \in PolicyModes, a \in EntryLists, d \in EntryLists}

\* what get_client_ip can return: an address, the text of some other
\* response, or the fallback
IPStrings == {"1.1.1.1", "10.1.2.3", "8.8.8.8", "not-an-ip", "Unknown"}

InitPolicy == InitWith({File(p) : p \in PolicySpace})

LoginPolicy ==
    \E s \in Sessions, ip \in IPStrings :
        RowsLeft(MaxRowsPolicy) /\ password_entered(s, "admin", "admin", ip)

LogoutPolicy == \E s \in Sessions : RowsLeft(MaxRowsPolicy) /\ logout(s)

NextPolicy == LoginPolicy \/ PageRun \/ LogoutPolicy

SpecPolicy == InitPolicy /\ [][NextPolicy]_vars

(* The credential store behind the gate: one browser session that logs in  *)
(* as the administrator, manages users, logs out and logs in again as one   *)
(* of the users.                                                            *)

MaxRowsStore == 5

\* secrets.token_hex(16)
Salts == {"9e07"}

\* the usernames and passwords typed into the forms
StoreLogins ==
    {<<"admin", "admin">>, <<"alice", "wonderland">>, <<"alice", "pw">>, <<"bob", "pw">>}

InitStore == InitWith({NoFile})

LoginStore ==
    \E s \in Sessions, l \in StoreLogins :
        RowsLeft(MaxRowsStore) /\ password_entered(s, l[1], l[2], "1.1.1.1")

LogoutStore == \E s \in Sessions : RowsLeft(MaxRowsStore) /\ logout(s)

AddUserStore ==
    \E s \in Sessions, salt \in Salts :
        RowsLeft(MaxRowsStore) /\ add_user_form(s, "bob", "pw", "user", salt, salt)

DeleteUserStore ==
    \E s \in Sessions, salt \in Salts :
        RowsLeft(MaxRowsStore) /\ delete_user_button(s, "alice", salt)

ResetPasswordStore ==
    \E s \in Sessions, salt \in Salts :
        RowsLeft(MaxRowsStore) /\ reset_password_form(s, "alice", "pw", salt, salt)

NextStore ==
    LoginStore \/ PageRun \/ LogoutStore \/ AddUserStore \/ DeleteUserStore
        \/ ResetPasswordStore

SpecStore == InitStore /\ [][NextStore]_vars

(* The admin panel: a user failing to log in, and the administrator         *)
(* clearing the rate limits the panel shows.                                *)

MaxRowsPanel == 6

\* a map the single-file application jackpotmap.py left in logs/ of the
\* working directory
LeftoverRateLimits ==
    Put(EmptyMap, "bob", [attempts |-> 5, window_end |-> -600, reset_time |-> 900])

InitPanel ==
    /\ now = 0
    /\ credentials_file = File(SeedCredentials)
    /\ USER_CREDENTIALS = SeedCredentials
    /\ ip_config = NoFile
    /\ rate_limits = NoFile
    /\ login_activity = NoLog
    /\ ip_activity = NoLog
    /\ session = [s \in Sessions |-> initialize_session_state]
    /\ panel_rate_limits = File(LeftoverRateLimits)
    /\ requests = [s \in Sessions |-> NoRequest]

LoginPanel ==
    \E s \in Sessions, l \in {<<"alice", "wrong">>, <<"admin", "admin">>} :
        RowsLeft(MaxRowsPanel) /\ password_entered(s, l[1], l[2], "1.1.1.1")

LogoutPanel == \E s \in Sessions : RowsLeft(MaxRowsPanel) /\ logout(s)

ClearPanel == \E s \in Sessions : RowsLeft(MaxRowsPanel) /\ clear_all_rate_limits(s)

NextPanel == LoginPanel \/ PageRun \/ LogoutPanel \/ ClearPanel

SpecPanel == InitPanel /\ [][NextPanel]_vars

(* User management by two browser sessions, both logged in as the          *)
(* administrator, each working on its own copy of the store.                *)

MaxRowsAdmins == 7

AdminSessions == {"s1", "s2"}

RowsLeftAdmins == RowsLeft(MaxRowsAdmins)

InitAdmins ==
    /\ now = 0
    /\ credentials_file = File(SeedCredentials)
    /\ USER_CREDENTIALS = SeedCredentials
    /\ ip_config = NoFile
    /\ rate_limits = NoFile
    /\ login_activity = NoLog
    /\ ip_activity = NoLog
    /\ session = [s \in AdminSessions |-> initialize_session_state]
    /\ panel_rate_limits = NoFile
    /\ requests = [s \in AdminSessions |-> NoRequest]

LoginAdmins ==
    \E s \in AdminSessions :
        RowsLeftAdmins /\ password_entered(s, "admin", "admin", "1.1.1.1")

PageRunAdmins == \E s \in AdminSessions : check_password(s)

ViewAdmins ==
    \E s \in AdminSessions, salt \in Salts : RowsLeftAdmins /\ view_users(s, salt)

AddUserAdmins ==
    \E s \in AdminSessions, role \in {"user", "admin"}, salt \in Salts :
        RowsLeftAdmins /\ add_user_form(s, "bob", "pw", role, salt, salt)

DeleteUserAdmins ==
    \E s \in AdminSessions, username \in {"alice", "bob"}, salt \in Salts :
        RowsLeftAdmins /\ delete_user_button(s, username, salt)

NextAdmins ==
    LoginAdmins \/ PageRunAdmins \/ ViewAdmins \/ AddUserAdmins \/ DeleteUserAdmins

SpecAdmins == InitAdmins /\ [][NextAdmins]_vars

(* The first start: the process is started where no credentials.json       *)
(* exists, the administrator logs in, and the process is started again.     *)

MaxRowsBoot == 4

\* secrets.token_hex(16), drawn at each start
BootSalts == {"5f2a", "9e07"}

InitBoot ==
    /\ now = 0
    /\ \E default_salt \in BootSalts :
          /\ USER_CREDENTIALS = load_credentials(NoFile, default_salt).credentials
          /\ credentials_file = load_credentials(NoFile, default_salt).file
    /\ ip_config = NoFile
    /\ rate_limits = NoFile
    /\ login_activity = NoLog
    /\ ip_activity = NoLog
    /\ session = [s \in Sessions |-> initialize_session_state]
    /\ panel_rate_limits = NoFile
    /\ requests = [s \in Sessions |-> NoRequest]

LoginBoot ==
    \E s \in Sessions, password \in {"admin", "wrong"} :
        RowsLeft(MaxRowsBoot) /\ password_entered(s, "admin", password, "1.1.1.1")

LogoutBoot == \E s \in Sessions : RowsLeft(MaxRowsBoot) /\ logout(s)

ViewBoot ==
    \E s \in Sessions, salt \in BootSalts : RowsLeft(MaxRowsBoot) /\ view_users(s, salt)

RestartBoot == \E default_salt \in BootSalts : restart(default_salt)

NextBoot == LoginBoot \/ PageRun \/ LogoutBoot \/ ViewBoot \/ RestartBoot

SpecBoot == InitBoot /\ [][NextBoot]_vars

(* The session timeout: one user logging in and out, and the clock moved   *)
(* by eight hours and by eight hours and a second.                          *)

MaxTimeSession == 57602

MaxRowsSession == 4

InitSession == InitWith({NoFile})

LoginSession ==
    \E s \in Sessions :
        RowsLeft(MaxRowsSession) /\ password_entered(s, "alice", "wonderland", "1.1.1.1")

LogoutSession == \E s \in Sessions : RowsLeft(MaxRowsSession) /\ logout(s)

TickSession ==
    \E d \in {SESSION_TIMEOUT, SESSION_TIMEOUT + 1} :
        now + d <= MaxTimeSession /\ Advance(d)

NextSession == LoginSession \/ PageRun \/ LogoutSession \/ TickSession

SpecSession == InitSession /\ [][NextSession]_vars

(* Two sessions failing logins at the same time: alice's password is      *)
(* wrong in both, from one address or two.                                  *)

MaxRowsRace == 4

RaceSessions == {"s1", "s2"}

RaceIPs == {"1.1.1.1", "10.1.2.3"}

InitRace ==
    /\ now = 0
    /\ credentials_file = File(SeedCredentials)
    /\ USER_CREDENTIALS = SeedCredentials
    /\ ip_config = NoFile
    /\ rate_limits = NoFile
    /\ login_activity = NoLog
    /\ ip_activity = NoLog
    /\ session = [s \in RaceSessions |-> initialize_session_state]
    /\ panel_rate_limits = NoFile
    /\ requests = [s \in RaceSessions |-> NoRequest]

BeginRace ==
    \E s \in RaceSessions, ip \in RaceIPs :
        /\ Len(login_activity.rows) < MaxRowsRace
        /\ failed_login_begin(s, "alice", "wrong", ip)

EndRace == \E s \in RaceSessions : failed_login_end(s)

NextRace == BeginRace \/ EndRace

SpecRace == InitRace /\ [][NextRace]_vars

(* Logins for alice against a store that holds her and against the same    *)
(* store without her.                                                       *)

MaxRowsEnum == 6

MaxTimeEnum == 1800

EnumStores == {SeedCredentials, Del(SeedCredentials, "alice")}

EnumIPs == {"1.1.1.1", "10.1.2.3"}

InitEnum ==
    /\ now = 0
    /\ USER_CREDENTIALS \in EnumStores
    /\ credentials_file = File(USER_CREDENTIALS)
    /\ ip_config = NoFile
    /\ rate_limits = NoFile
    /\ login_activity = NoLog
    /\ ip_activity = NoLog
    /\ session = [s \in Sessions |-> initialize_session_state]
    /\ panel_rate_limits = NoFile
    /\ requests = [s \in Sessions |-> NoRequest]

LoginEnum ==
    \E s \in Sessions, password \in {"wonderland", "wrong"}, ip \in EnumIPs :
        RowsLeft(MaxRowsEnum) /\ password_entered(s, "alice", password, ip)

LogoutEnum == \E s \in Sessions : RowsLeft(MaxRowsEnum) /\ logout(s)

TickEnum == now + USER_LOCKOUT <= MaxTimeEnum /\ Advance(USER_LOCKOUT)

NextEnum == LoginEnum \/ PageRun \/ LogoutEnum \/ TickEnum

SpecEnum == InitEnum /\ [][NextEnum]_vars

(* The two admin pages opened by an administrator, by another user and    *)
(* after the session has expired.                                          *)

MaxRowsGuard == 6

MaxTimeGuard == 28801

GuardLogins == {<<"admin", "admin">>, <<"alice", "wonderland">>}

InitGuard ==
    /\ now = 0
    /\ credentials_file = File(SeedCredentials)
    /\ USER_CREDENTIALS = SeedCredentials
    /\ ip_config = NoFile
    /\ rate_limits = NoFile
    /\ login_activity = NoLog
    /\ ip_activity = NoLog
    /\ session = [s \in Sessions |-> initialize_session_state]
    /\ panel_rate_limits = File(LeftoverRateLimits)
    /\ requests = [s \in Sessions |-> NoRequest]

RowsLeftGuard == RowsLeft(MaxRowsGuard)

LoginGuard ==
    \E s \in Sessions, l \in GuardLogins :
        RowsLeftGuard /\ password_entered(s, l[1], l[2], "10.1.2.3")

LogoutGuard == \E s \in Sessions : RowsLeftGuard /\ logout(s)

TickGuard ==
    now + SESSION_TIMEOUT + 1 <= MaxTimeGuard /\ Advance(SESSION_TIMEOUT + 1)

SaveGuard ==
    \E s \in Sessions, mode \in PanelModes, deny_list \in {<<>>, <<"1.1.1.1">>} :
        RowsLeftGuard /\ save_ip_configuration(s, mode, <<>>, deny_list)

ClearGuard == \E s \in Sessions : RowsLeftGuard /\ clear_all_rate_limits(s)

AddUserGuard ==
    \E s \in Sessions, salt \in Salts :
        RowsLeftGuard /\ add_user_form(s, "bob", "pw", "user", salt, salt)

DeleteUserGuard ==
    \E s \in Sessions, salt \in Salts :
        RowsLeftGuard /\ delete_user_button(s, "alice", salt)

ChangeRoleGuard ==
    \E s \in Sessions, salt \in Salts :
        RowsLeftGuard /\ change_role_form(s, "alice", "admin", salt)

ResetPasswordGuard ==
    \E s \in Sessions, salt \in Salts :
        RowsLeftGuard /\ reset_password_form(s, "alice", "pw", salt, salt)

NextGuard ==
    LoginGuard \/ PageRun \/ LogoutGuard \/ TickGuard \/ SaveGuard \/ ClearGuard
        \/ AddUserGuard \/ DeleteUserGuard \/ ChangeRoleGuard \/ ResetPasswordGuard

SpecGuard == InitGuard /\ [][NextGuard]_vars

(* Two sessions failing logins at the same time, at the granularity of    *)
(* the log file's existence test and its open.                             *)

MaxRowsLogRace == 4

IsFileLogRace ==
    \E s \in RaceSessions, username \in {"alice", "admin"}, ip \in RaceIPs :
        /\ Len(login_activity.rows)
              + Cardinality({x \in RaceSessions : requests[x].pc = "logging"})
                < MaxRowsLogRace
        /\ failed_login_isfile(s, username, "wrong", ip)

WriteLogRace == \E s \in RaceSessions : failed_login_write(s)

NextLogRace == IsFileLogRace \/ WriteLogRace

SpecLogRace == InitRace /\ [][NextLogRace]_vars

(* Two administrators on the user-management page, one of them opening   *)
(* the page while the other one's save is writing the file.                *)

MaxRowsTorn == 7

RowsLeftTorn == RowsLeft(MaxRowsTorn)

LoginTorn ==
    \E s \in AdminSessions :
        RowsLeftTorn /\ password_entered(s, "admin", "admin", "1.1.1.1")

ViewTorn ==
    \E s \in AdminSessions, salt \in Salts : RowsLeftTorn /\ view_users_racing(s, salt)

OpenTorn ==
    \E s \in AdminSessions, salt \in Salts :
        RowsLeftTorn /\ add_user_open(s, "bob", "pw", "admin", salt)

CloseTorn == \E s \in AdminSessions : save_credentials_close(s)

AddUserTorn ==
    \E s \in AdminSessions, salt \in Salts :
        /\ RowsLeftTorn
        /\ ~credentials_being_written
        /\ "credentials_data" \in DOMAIN session[s]
        /\ add_user_form(s, "carol", "pw", "user", salt, salt)

ChangeRoleTorn ==
    \E s \in AdminSessions, username \in {"admin", "bob"}, salt \in Salts :
        /\ RowsLeftTorn
        /\ ~credentials_being_written
        /\ "credentials_data" \in DOMAIN session[s]
        /\ change_role_form(s, username, "user", salt)

DeleteUserTorn ==
    \E s \in AdminSessions, salt \in Salts :
        /\ RowsLeftTorn
        /\ ~credentials_being_written
        /\ "credentials_data" \in DOMAIN session[s]
        /\ delete_user_button(s, "bob", salt)

NextTorn ==
    LoginTorn \/ ViewTorn \/ OpenTorn \/ CloseTorn \/ AddUserTorn \/ ChangeRoleTorn
        \/ DeleteUserTorn

SpecTorn == InitAdmins /\ [][NextTorn]_vars

(* Failed logins, one at a time, for a username that is the text of the   *)
(* caller's ip_ key, and for another one.                                  *)

MaxRowsShared == 5

MaxTimeShared == 301

InitShared == InitWith({NoFile})

LoginShared ==
    \E s \in Sessions, username \in {"ip_1.1.1.1", "alice"},
       password \in {"wrong", "wonderland"} :
        RowsLeft(MaxRowsShared) /\ password_entered(s, username, password, "1.1.1.1")

LogoutShared == \E s \in Sessions : RowsLeft(MaxRowsShared) /\ logout(s)

TickShared == now + WINDOW + 1 <= MaxTimeShared /\ Advance(WINDOW + 1)

NextShared == LoginShared \/ PageRun \/ LogoutShared \/ TickShared

SpecShared == InitShared /\ [][NextShared]_vars

(* alice failing logins from one session while the callback of another    *)
(* session, failing for bob from another address, is between its load and *)
(* its dump of the rate-limit file.                                        *)

MaxRowsLockRace == 7

WholeLockRace ==
    \E s \in RaceSessions :
        /\ RowsLeft(MaxRowsLockRace)
        /\ requests[s].pc = "idle"
        /\ password_entered(s, "alice", "wrong", "1.1.1.1")

BeginLockRace ==
    \E s \in RaceSessions :
        /\ RowsLeft(MaxRowsLockRace)
        /\ failed_login_begin(s, "bob", "wrong", "10.1.2.3")

EndLockRace == \E s \in RaceSessions : failed_login_end(s)

NextLockRace == WholeLockRace \/ BeginLockRace \/ EndLockRace

SpecLockRace == InitRace /\ [][NextLockRace]_vars

(* Two sessions failing logins for alice from one address, their        *)
(* callbacks one after the other or overlapping, up to her lock.            *)

MaxRowsBurst == 6

BeginBurst ==
    \E s \in RaceSessions :
        /\ Len(login_activity.rows) < MaxRowsBurst
        /\ failed_login_begin(s, "alice", "wrong", "1.1.1.1")

EndBurst == \E s \in RaceSessions : failed_login_end(s)

NextBurst == BeginBurst \/ EndBurst

SpecBurst == InitRace /\ [][NextBurst]_vars

(* An administrator managing the account of a user who is logged in in    *)
(* another session.                                                         *)

MaxRowsRoles == 5

RowsLeftRoles == RowsLeft(MaxRowsRoles)

LoginRoles ==
    \E s \in AdminSessions, l \in GuardLogins :
        RowsLeftRoles /\ password_entered(s, l[1], l[2], "1.1.1.1")

PageRunRoles == \E s \in AdminSessions : check_password(s)

LogoutRoles == \E s \in AdminSessions : RowsLeftRoles /\ logout(s)

DeleteUserRoles ==
    \E s \in AdminSessions, salt \in Salts :
        RowsLeftRoles /\ delete_user_button(s, "alice", salt)

ChangeRoleRoles ==
    \E s \in AdminSessions, new_role \in {"user", "admin"}, salt \in Salts :
        RowsLeftRoles /\ change_role_form(s, "alice", new_role, salt)

NextRoles ==
    LoginRoles \/ PageRunRoles \/ LogoutRoles \/ DeleteUserRoles \/ ChangeRoleRoles

SpecRoles == InitAdmins /\ [][NextRoles]_vars

----------------------------------------------------------------------------
(* Vocabulary of the properties *)

\* every input some specification submits
AnyUsername == Usernames \cup {"alice", "admin"}
AnyPassword == Passwords \cup {"wrong"}
AnyIP == ClientIPs \cup IPStrings

\* the rate-limit map the gate consults
RateMap == load_rate_limits(rate_limits)

\* the identity key is locked: its entry carries a reset_time still ahead
Locked(key) ==
    /\ key \in DOMAIN RateMap
    /\ "reset_time" \in DOMAIN RateMap[key]
    /\ now < RateMap[key].reset_time

\* the username or the caller's address is locked
IdentityLocked(username, ip) == Locked(username) \/ Locked(ip_key_of(ip))

\* the IP policy as stored allows the address
PolicyAllows(ip) == is_ip_allowed(load_ip_config(ip_config), ip) = "True"

\* the step denied the login as rate limited: the message, no
\* authentication, one rate_limited row, nothing else written
DeniedRateLimited(s, username, ip) ==
    /\ session'[s].authentication_error = MsgRateLimited
    /\ ~session'[s].authenticated
    /\ ip_activity'.rows = Append(ip_activity.rows, Row(username, "rate_limited", ip))
    /\ login_activity' = login_activity
    /\ RateMap' = RateMap

LastRow(log) == log.rows[Len(log.rows)]

----------------------------------------------------------------------------
(* C1 *)

----------------------------------------------------------------------------
(* C2 *)

\* the login-activity rows of one username, oldest first
UserRows(username) ==
    SelectSeq(login_activity.rows, LAMBDA r : r.username = username)

\* the last five logins of the username all failed
LastFiveFailed(username) ==
    LET r == UserRows(username) IN
    /\ Len(r) >= 5
    /\ \A i \in (Len(r) - 4)..Len(r) : r[i].activity = "failed"

\* the times of the first and the last of the last five logins
FirstOfFive(username) == UserRows(username)[Len(UserRows(username)) - 4].timestamp
LastOfFive(username) == UserRows(username)[Len(UserRows(username))].timestamp

\* the username's entry locks it for 1800 s from its latest login
LockedFromLastFailure(username) ==
    /\ username \in DOMAIN RateMap
    /\ "reset_time" \in DOMAIN RateMap[username]
    /\ RateMap[username].reset_time = LastOfFive(username) + USER_LOCKOUT

\* C2 as stated: whenever the last five logins of a username all failed
\* within a span of 300 s, wherever that span lies, the username is locked
\* for 1800 s from the fifth; and an attempt for a locked username is denied
\* as rate limited without counting.
C2_AsStated ==
    /\ [](\A u \in AnyUsername :
            (LastFiveFailed(u) /\ LastOfFive(u) - FirstOfFive(u) <= WINDOW)
                => LockedFromLastFailure(u))
    /\ [][\A s \in Sessions, u \in AnyUsername, p \in AnyPassword, ip \in AnyIP :
            (Locked(u) /\ password_entered(s, u, p, ip))
                => DeniedRateLimited(s, u, ip)]_vars

\* C2 as amended: the window does not slide.  Whenever the last five logins
\* of a username all failed and all five were counted in the current window
\* of its entry (none is older than window_end - 300, the failure that
\* opened the window), the username is locked for 1800 s from the fifth; and
\* an attempt for a locked username from an address the IP policy allows is
\* denied as rate limited without counting.
C2_FiveInOneWindowLock ==
    /\ [](\A u \in AnyUsername :
            LastFiveFailed(u)
                => /\ u \in DOMAIN RateMap
                   /\ FirstOfFive(u) >= RateMap[u].window_end - WINDOW
                          => LockedFromLastFailure(u))
    /\ [][\A s \in Sessions, u \in AnyUsername, p \in AnyPassword, ip \in AnyIP :
            (Locked(u) /\ PolicyAllows(ip) /\ password_entered(s, u, p, ip))
                => DeniedRateLimited(s, u, ip)]_vars

\* C2 witness: alice's last five logins failed inside one window, she is
\* locked with attempts = 5, and a sixth attempt has just been denied.
C2_Witness ==
    \E s \in Sessions :
        /\ LastFiveFailed("alice")
        /\ FirstOfFive("alice") < LastOfFive("alice")
        /\ Locked("alice")
        /\ RateMap["alice"].attempts = USER_THRESHOLD
        /\ session[s].authentication_error = MsgRateLimited
        /\ LastRow(ip_activity).activity = "rate_limited"

----------------------------------------------------------------------------
(* C3 *)

\* the login attempts from one address that passed the IP policy, as the
\* IP-activity stream records them, oldest first
AttemptRows(ip) ==
    SelectSeq(ip_activity.rows,
              LAMBDA r : r.ip = ip /\ r.activity \in {"failed_login", "rate_limited",
                                                       "successful_login"})

\* the failed logins from one address that reached the credential check
FailedRows(ip) ==
    SelectSeq(ip_activity.rows, LAMBDA r : r.ip = ip /\ r.activity = "failed_login")

\* the last ten attempts from the address all failed to log in
LastTenDenied(ip) ==
    LET r == AttemptRows(ip) IN
    /\ Len(r) >= 10
    /\ \A i \in (Len(r) - 9)..Len(r) : r[i].activity # "successful_login"

\* C3 as stated: whenever the last ten login attempts from one address all
\* failed within 300 s, whether or not the usernames they name were locked
\* on the way, the key ip_<address> carries a lockout of 3600 s set by one
\* of them.
C3_AsStated ==
    \A ip \in AnyIP :
        LET r == AttemptRows(ip)
            n == Len(r)
            k == ip_key_of(ip)
        IN  (LastTenDenied(ip) /\ r[n].timestamp - r[n - 9].timestamp <= WINDOW)
                => /\ k \in DOMAIN RateMap
                   /\ "reset_time" \in DOMAIN RateMap[k]
                   /\ RateMap[k].reset_time >= r[n - 9].timestamp + IP_LOCKOUT
                   /\ RateMap[k].reset_time <= r[n].timestamp + IP_LOCKOUT

\* C3 as amended: only the failures that reach the credential check are
\* counted, in a window that does not slide.  Whenever ten failed logins
\* from one address were counted in the current window of its entry (the
\* tenth last is not older than window_end - 300), the key ip_<address> is
\* locked for 3600 s from the last of them, whatever the usernames' entries.
C3_TenCountedLockIP ==
    \A ip \in AnyIP :
        LET f == FailedRows(ip)
            n == Len(f)
            k == ip_key_of(ip)
        IN  n >= 10
                => /\ k \in DOMAIN RateMap
                   /\ f[n - 9].timestamp >= RateMap[k].window_end - WINDOW
                          => /\ "reset_time" \in DOMAIN RateMap[k]
                             /\ RateMap[k].reset_time = f[n].timestamp + IP_LOCKOUT

\* C3 witness: ten failed logins from 1.1.1.1, five for each of two
\* usernames, were counted in one window and the address is locked.
C3_Witness ==
    /\ Len(FailedRows("1.1.1.1")) = 10
    /\ Locked("ip_1.1.1.1")
    /\ RateMap["ip_1.1.1.1"].attempts = IP_THRESHOLD
    /\ RateMap["ip_1.1.1.1"].reset_time = now + IP_LOCKOUT
    /\ Locked("alice") /\ Locked("admin")
    /\ LastRow(ip_activity).activity = "rate_limited_ip"

----------------------------------------------------------------------------
(* C4 *)

\* the step denied the login as blocked by the IP policy: the message, one
\* blocked_ip row, and the rate-limit map, the login-activity stream and
\* the authenticated flag as they were
DeniedIpBlocked(s, username, ip) ==
    /\ session'[s].authentication_error = MsgIpBlocked
    /\ session'[s].authenticated = session[s].authenticated
    /\ ip_activity'.rows = Append(ip_activity.rows, Row(username, "blocked_ip", ip))
    /\ login_activity' = login_activity
    /\ rate_limits' = rate_limits

\* C4: the IP policy is evaluated before the rate limit and the
\* credentials.  Whenever the policy denies the caller's address, the login
\* attempt is denied as ip_blocked whatever the lock state and the password:
\* exactly one blocked_ip row is appended to the IP-activity stream, and the
\* rate-limit map, the login-activity stream and the session's
\* authenticated flag are left unchanged.
C4_BlockedFirst ==
    [][\A s \in Sessions, u \in AnyUsername, p \in AnyPassword, ip \in AnyIP :
          (is_ip_allowed(load_ip_config(ip_config), ip) = "False"
             /\ password_entered(s, u, p, ip))
              => DeniedIpBlocked(s, u, ip)]_vars

\* C4 witness: alice is locked, and her attempt with the right password
\* from the denied 10.1.2.3 has just been answered with ip_blocked.
C4_Witness ==
    \E s \in Sessions :
        /\ Locked("alice")
        /\ is_ip_allowed(load_ip_config(ip_config), "10.1.2.3") = "False"
        /\ session[s].username = "alice"
        /\ session[s].password = "wonderland"
        /\ session[s].authentication_error = MsgIpBlocked
        /\ ~session[s].authenticated
        /\ LastRow(ip_activity) = Row("alice", "blocked_ip", "10.1.2.3")

----------------------------------------------------------------------------
(* C5 *)

\* the stored policy is deny_all
DenyAll == load_ip_config(ip_config).mode = "deny_all"

\* C5 as stated: under deny_all every login attempt is blocked, for every
\* value get_client_ip can return and whatever the credentials: no session
\* becomes authenticated, blocked_ip is logged and no rate-limit counter is
\* touched.
C5_AsStated ==
    [][\A s \in Sessions, u \in AnyUsername, p \in AnyPassword, ip \in AnyIP :
          (DenyAll /\ password_entered(s, u, p, ip))
              => /\ \A s2 \in Sessions : ~session'[s2].authenticated
                 /\ DeniedIpBlocked(s, u, ip)]_vars

\* C5 as amended: the same for every resolved address; the fallback value
\* "Unknown" of a failed resolution is allowed in every mode.
C5_DenyAllBlocksResolved ==
    [][\A s \in Sessions, u \in AnyUsername, p \in AnyPassword, ip \in AnyIP :
          (DenyAll /\ ip # "Unknown" /\ password_entered(s, u, p, ip))
              => /\ \A s2 \in Sessions : ~session'[s2].authenticated
                 /\ DeniedIpBlocked(s, u, ip)]_vars

\* C5 witness: under deny_all, admin's right password from 1.1.1.1 has just
\* been blocked, with no rate-limit entry created.
C5_Witness ==
    \E s \in Sessions :
        /\ DenyAll
        /\ session[s].username = "admin"
        /\ session[s].password = "admin"
        /\ session[s].authentication_error = MsgIpBlocked
        /\ ~session[s].authenticated
        /\ LastRow(ip_activity) = Row("admin", "blocked_ip", "1.1.1.1")
        /\ RateMap = EmptyMap

----------------------------------------------------------------------------
(* C6 *)

\* the entry is well-formed CIDR text: four octets, a prefix of 0..32
CidrEntry(entry) ==
    /\ Lex(entry).slash
    /\ ValidOctets(Lex(entry).octets)
    /\ Lex(entry).prefix \in 0..32

\* the reference's match: the same string, or an address inside the
\* entry's network (the leading prefix bits agree)
Matches(ip, entry) ==
    \/ ip = entry
    \/ /\ CidrEntry(entry)
       /\ ValidOctets(Lex(ip).octets) /\ ~Lex(ip).slash
       /\ LET shift == Pow2(32 - Lex(entry).prefix)
          IN  ToInt(Lex(ip).octets) \div shift = ToInt(Lex(entry).octets) \div shift

MatchesAny(ip, entries) == \E i \in 1..Len(entries) : Matches(ip, entries[i])

\* the reference of the claim
ReferenceAllowed(cfg, ip) ==
    IF ip = "Unknown" THEN TRUE
    ELSE IF cfg.mode = "allow_all" THEN TRUE
    ELSE IF cfg.mode = "deny_all" THEN FALSE
    ELSE IF cfg.mode = "use_lists"
         THEN IF MatchesAny(ip, cfg.deny_list) THEN FALSE
              ELSE IF cfg.allow_list = <<>> THEN TRUE
              ELSE MatchesAny(ip, cfg.allow_list)
    ELSE TRUE

\* C6 as stated: for every stored policy and every IP string, is_ip_allowed
\* returns what the reference gives: "Unknown" allowed in every mode,
\* allow_all allowed, deny_all denied, use_lists denied on a deny match,
\* else allowed on an empty allow list, else allowed iff an allow entry
\* matches; any other mode allowed.
C6_AsStated ==
    \A ip \in IPStrings :
        is_ip_allowed(load_ip_config(ip_config), ip)
            = (IF ReferenceAllowed(load_ip_config(ip_config), ip) THEN "True" ELSE "False")

----------------------------------------------------------------------------
(* C7 *)

\* the claim's credential check: the username is in the store and the hash
\* of the submitted password with the stored salt is the stored hash
StoredMatch(username, password) ==
    /\ username \in DOMAIN USER_CREDENTIALS
    /\ pbkdf2_hmac(password, USER_CREDENTIALS[username].salt)
           = USER_CREDENTIALS[username].password

\* record_failure of the rate limiter's contract, on a map: a fresh window
\* when there is no entry or the window has passed, else one more attempt,
\* and reset_time once the attempts reach the threshold
record_failure(map, key, threshold, lockout) ==
    LET fresh == key \notin DOMAIN map \/ now > map[key].window_end
        entry == IF fresh THEN [attempts |-> 1, window_end |-> now + WINDOW]
                 ELSE [map[key] EXCEPT !.attempts = @ + 1]
    IN  IF ~fresh /\ entry.attempts >= threshold
        THEN Put(map, key, Put(entry, "reset_time", now + lockout))
        ELSE Put(map, key, entry)

\* record_failure applied to the username key and then to the address key
BothRecorded(map, username, ip) ==
    record_failure(record_failure(map, username, USER_THRESHOLD, USER_LOCKOUT),
                   ip_key_of(ip), IP_THRESHOLD, IP_LOCKOUT)

\* the rows the step appended to the IP-activity stream
NewIpRows == SubSeq(ip_activity'.rows, Len(ip_activity.rows) + 1, Len(ip_activity'.rows))

\* the step handled a failed login: the session unauthenticated, one failed
\* row in the login-activity stream, one failed_login row in the
\* IP-activity stream
FailedLogin(s, username, ip) ==
    /\ ~session'[s].authenticated
    /\ session'[s].authentication_error = MsgBadCredentials
    /\ login_activity'.rows = Append(login_activity.rows, Row(username, "failed", ip))
    /\ Len(NewIpRows) >= 1
    /\ NewIpRows[1] = Row(username, "failed_login", ip)
    /\ Len(SelectSeq(NewIpRows, LAMBDA r : r.activity = "failed_login")) = 1

\* C7: when the IP policy allows the address and neither the username nor
\* the address is locked, the login authenticates iff the username is in
\* the credential store and the password hashes to the stored hash; in
\* every other case the session stays unauthenticated, one failed row and
\* one failed_login row are logged, and record_failure is applied to the
\* username key and to the ip_<address> key.
C7_AuthenticatesIffMatch ==
    [][\A s \in Sessions, u \in AnyUsername, p \in AnyPassword, ip \in AnyIP :
          (PolicyAllows(ip) /\ ~IdentityLocked(u, ip) /\ password_entered(s, u, p, ip))
              => IF StoredMatch(u, p)
                 THEN session'[s].authenticated
                 ELSE /\ FailedLogin(s, u, ip)
                      /\ RateMap' = BothRecorded(RateMap, u, ip)]_vars

\* C7 witness: alice's login with admin's password has failed after an
\* unknown username failed from the same address: both are logged and
\* counted, and nobody is authenticated.
C7_Witness ==
    \E s \in Sessions :
        /\ ~session[s].authenticated
        /\ session[s].authentication_error = MsgBadCredentials
        /\ Len(login_activity.rows) = 2
        /\ login_activity.rows[1].username = "ip_1.1.1.1"
        /\ login_activity.rows[1].ip = "10.1.2.3"
        /\ login_activity.rows[2] = Row("alice", "failed", "10.1.2.3")
        /\ LastRow(ip_activity) = Row("alice", "failed_login", "10.1.2.3")
        /\ RateMap["alice"].attempts = 1
        /\ RateMap["ip_10.1.2.3"].attempts = 2

----------------------------------------------------------------------------
(* C8 *)

\* the keys whose entry the step created or changed
ChangedKeys ==
    {k \in DOMAIN RateMap' : k \notin DOMAIN RateMap \/ RateMap'[k] # RateMap[k]}

\* the entry was reset to one attempt or its attempts grew by exactly one
CountedOnce(k) ==
    \/ RateMap'[k].attempts = 1
    \/ k \in DOMAIN RateMap /\ RateMap'[k].attempts = RateMap[k].attempts + 1

\* C8 as stated: a single failed login for username u from address a
\* changes exactly two rate-limit entries, the one keyed u and the one keyed
\* ip_a, each reset to attempts = 1 or incremented by exactly 1, and no
\* other entry, for every username string.
C8_AsStated ==
    [][\A s \in Sessions, u \in AnyUsername, p \in AnyPassword, ip \in AnyIP :
          (password_entered(s, u, p, ip) /\ FailedLogin(s, u, ip))
              => /\ ChangedKeys = {u, ip_key_of(ip)}
                 /\ Cardinality(ChangedKeys) = 2
                 /\ DOMAIN RateMap \subseteq DOMAIN RateMap'
                 /\ \A k \in ChangedKeys : CountedOnce(k)]_vars

----------------------------------------------------------------------------
(* C9 *)

\* the failed logins of one username, oldest first
FailedLogins(username) ==
    SelectSeq(login_activity.rows,
              LAMBDA r : r.username = username /\ r.activity = "failed")

\* the step logged the username in from the address: the session fields,
\* one success row, one successful_login row, the rate-limit map unchanged
LoggedIn(s, username, ip) ==
    /\ session'[s].authenticated
    /\ session'[s].username = username
    /\ session'[s].user_role = USER_CREDENTIALS[username].role
    /\ session'[s].login_time = now
    /\ session'[s].ip_address = ip
    /\ login_activity'.rows = Append(login_activity.rows, Row(username, "success", ip))
    /\ ip_activity'.rows = Append(ip_activity.rows, Row(username, "successful_login", ip))
    /\ RateMap' = RateMap

\* C9: a successful login sets authenticated, username, user_role (the
\* stored role), login_time and ip_address in the session, appends one
\* success row and one successful_login row, and leaves the rate-limit map
\* unchanged; so successes between them do not keep five failures counted
\* in one window from locking the username from the fifth.
C9_SuccessKeepsCounters ==
    /\ [][\A s \in Sessions, u \in AnyUsername, p \in AnyPassword, ip \in AnyIP :
            (password_entered(s, u, p, ip) /\ session'[s].authenticated)
                => LoggedIn(s, u, ip)]_vars
    /\ [](\A u \in AnyUsername :
            LET f == FailedLogins(u)
                n == Len(f)
            IN  (n >= 5 /\ u \in DOMAIN RateMap
                   /\ f[n - 4].timestamp >= RateMap[u].window_end - WINDOW)
                    => /\ "reset_time" \in DOMAIN RateMap[u]
                       /\ RateMap[u].reset_time = f[n].timestamp + USER_LOCKOUT)

\* C9 witness: alice failed four times, logged in, logged out and failed
\* once more inside the window: she is locked.
C9_Witness ==
    /\ Len(UserRows("alice")) = 6
    /\ \A i \in 1..4 : UserRows("alice")[i].activity = "failed"
    /\ UserRows("alice")[5].activity = "success"
    /\ UserRows("alice")[6].activity = "failed"
    /\ UserRows("alice")[6].timestamp <= UserRows("alice")[1].timestamp + WINDOW
    /\ Locked("alice")
    /\ RateMap["alice"].attempts = USER_THRESHOLD

----------------------------------------------------------------------------
(* C10 *)

\* C10: a failure recorded for an identity whose entry exists with
\* now > window_end replaces the entry by a fresh window, attempts = 1 and
\* window_end = now + 300, with nothing of the old window and no
\* reset_time; with now <= window_end it increments attempts by 1 and keeps
\* window_end.
C10_FreshWindowOrIncrement ==
    [][\A s \in Sessions, u \in AnyUsername, p \in AnyPassword, ip \in AnyIP :
          (password_entered(s, u, p, ip) /\ FailedLogin(s, u, ip) /\ u # ip_key_of(ip))
              => \A k \in {u, ip_key_of(ip)} \cap DOMAIN RateMap :
                     IF now > RateMap[k].window_end
                     THEN RateMap'[k] = [attempts |-> 1, window_end |-> now + WINDOW]
                     ELSE /\ RateMap'[k].attempts = RateMap[k].attempts + 1
                          /\ RateMap'[k].window_end = RateMap[k].window_end]_vars

\* C10 witness: alice failed at 0, again at 300 (the last second of the
\* window, so counted in it) until locked, and once more after the lockout:
\* her entry is a fresh window with one attempt and no reset_time.
C10_Witness ==
    /\ Len(FailedLogins("alice")) = 6
    /\ FailedLogins("alice")[1].timestamp = 0
    /\ \A i \in 2..5 : FailedLogins("alice")[i].timestamp = WINDOW
    /\ FailedLogins("alice")[6].timestamp = now
    /\ now = WINDOW + USER_LOCKOUT
    /\ RateMap["alice"] = [attempts |-> 1, window_end |-> now + WINDOW]
    /\ RateMap["ip_1.1.1.1"] = [attempts |-> 1, window_end |-> now + WINDOW]

----------------------------------------------------------------------------
(* C11 *)

\* the username's entry is that of a lockout that has ended: the threshold
\* was reached and reset_time is not ahead any more
LockoutEnded(username) ==
    /\ username \in DOMAIN RateMap
    /\ "reset_time" \in DOMAIN RateMap[username]
    /\ RateMap[username].attempts >= USER_THRESHOLD
    /\ now >= RateMap[username].reset_time

\* C11: lockouts end by themselves.  Once the clock has reached the
\* reset_time of a username locked by five failures, a login with the right
\* password from an allowed, unlocked address succeeds with no clearing of
\* the map, and the stale entry stays stored as it was.
C11_LockoutEnds ==
    [][\A s \in Sessions, u \in AnyUsername, p \in AnyPassword, ip \in AnyIP :
          (LockoutEnded(u) /\ PolicyAllows(ip) /\ ~Locked(ip_key_of(ip))
             /\ StoredMatch(u, p) /\ password_entered(s, u, p, ip))
              => /\ LoggedIn(s, u, ip)
                 /\ LockoutEnded(u)']_vars

\* C11 witness: alice was locked by five failures at 0 and has logged in
\* one second past her reset_time, her entry still at five attempts.
C11_Witness ==
    \E s \in Sessions :
        /\ now = USER_LOCKOUT + 1
        /\ Len(FailedLogins("alice")) = 5
        /\ RateMap["alice"] = [attempts |-> 5, window_end |-> WINDOW,
                                reset_time |-> USER_LOCKOUT]
        /\ session[s].authenticated
        /\ session[s].username = "alice"
        /\ session[s].login_time = now
        /\ LastRow(login_activity) = Row("alice", "success", "1.1.1.1")

----------------------------------------------------------------------------
(* C12 *)

\* the inputs of the store's specification
StoreUsernames == {l[1] : l \in StoreLogins}
StorePasswords == {l[2] : l \in StoreLogins}

\* the credentials match the store as persisted
PersistedMatch(username, password) ==
    /\ credentials_file.exists
    /\ username \in DOMAIN credentials_file.data
    /\ pbkdf2_hmac(password, credentials_file.data[username].salt)
           = credentials_file.data[username].password

\* C12 as stated: the login decides against the credential store as most
\* recently saved by user management: from an allowed address and with no
\* lock, a login is accepted iff the username is in the persisted store and
\* the password hashes to the hash persisted for it (so a removed user is
\* denied, a changed password is the one accepted, an added user gets in).
C12_AsStated ==
    [][\A s \in Sessions, u \in StoreUsernames, p \in StorePasswords, ip \in AnyIP :
          (PolicyAllows(ip) /\ ~IdentityLocked(u, ip) /\ password_entered(s, u, p, ip))
              => (session'[s].authenticated <=> PersistedMatch(u, p))]_vars

----------------------------------------------------------------------------
(* C13 *)

\* C13 as stated: after the administrator's clear-all the rate-limit map
\* the login gate consults is empty, so every identity passes the check and
\* its next failure starts again from attempts = 1.
C13_AsStated ==
    [][\A s \in Sessions : clear_all_rate_limits(s) => RateMap' = EmptyMap]_vars

----------------------------------------------------------------------------
(* C14 *)

ManagedNames == {"admin", "alice", "bob"}

\* the store as persisted
Persisted == credentials_file.data

\* the step left the persisted store and the session's copy as they were
StoreUntouched(s) ==
    /\ credentials_file' = credentials_file
    /\ \A salt \in Salts :
           session'[s].credentials_data = session_credentials(s, salt).credentials

\* C14 as stated: remove of the sole remaining admin (LastAdminProtected)
\* and remove of an absent username (NotFound) leave the credential store,
\* cached and persisted, exactly as it was; any other remove deletes exactly
\* that user from the store and nothing else.
C14_AsStated ==
    [][\A s \in AdminSessions, u \in ManagedNames, salt \in Salts :
          (delete_user_button(s, u, salt) /\ u # session[s].username)
              => IF u \notin DOMAIN Persisted
                    \/ (Persisted[u].role = "admin" /\ admin_count(Persisted) <= 1)
                 THEN StoreUntouched(s)
                 ELSE credentials_file'.data = Del(Persisted, u)]_vars

----------------------------------------------------------------------------
(* C15 *)

\* the store holds exactly the default administrator, hashed with its salt
OnlyDefaultAdmin(credentials) ==
    /\ DOMAIN credentials = {"admin"}
    /\ credentials["admin"].role = "admin"
    /\ credentials["admin"].salt \in BootSalts
    /\ credentials["admin"].password = pbkdf2_hmac("admin", credentials["admin"].salt)

\* C15: started with no credentials file, load yields exactly one user
\* admin with role admin and persists it; a login with (admin, admin) then
\* succeeds with user_role admin in the session; and a later load, at the
\* next start or by the user-management page, returns the persisted record
\* with its salt and hash instead of making a new one.
C15_DefaultAdminPersisted ==
    /\ [](/\ credentials_file.exists
          /\ OnlyDefaultAdmin(credentials_file.data)
          /\ USER_CREDENTIALS = credentials_file.data)
    /\ [][\A s \in Sessions :
            (~IdentityLocked("admin", "1.1.1.1")
               /\ password_entered(s, "admin", "admin", "1.1.1.1"))
                => /\ session'[s].authenticated
                   /\ session'[s].user_role = "admin"]_vars
    /\ [][(\E default_salt \in BootSalts : restart(default_salt))
              => /\ USER_CREDENTIALS' = credentials_file.data
                 /\ credentials_file' = credentials_file]_vars
    /\ [][\A s \in Sessions :
            (\E default_salt \in BootSalts : view_users(s, default_salt))
                => /\ session'[s].credentials_data = credentials_file.data
                   /\ credentials_file' = credentials_file]_vars

\* C15 witness: the administrator logged in with admin/admin, the process
\* was started again, and the administrator is logged in again with the
\* role admin, against the record of the first start.
C15_Witness ==
    \E s \in Sessions :
        /\ Len(login_activity.rows) = 2
        /\ \A i \in 1..2 : login_activity.rows[i] = Row("admin", "success", "1.1.1.1")
        /\ \A i \in 1..Len(ip_activity.rows) : ip_activity.rows[i].activity # "logout"
        /\ session[s].authenticated
        /\ session[s].user_role = "admin"
        /\ OnlyDefaultAdmin(USER_CREDENTIALS)
        /\ USER_CREDENTIALS = credentials_file.data

----------------------------------------------------------------------------
(* C16 *)

\* the session is authenticated and not older than eight hours
SessionValid(s) ==
    session[s].authenticated /\ now - session[s].login_time <= SESSION_TIMEOUT

\* C16: the session check returns true iff the session is authenticated
\* and now - login_time <= 8 hours; the first check after the eight hours
\* ends the session; and a session that is not valid becomes valid again
\* only by a new successful login, never by itself.
C16_SessionValidity ==
    /\ [](\A s \in Sessions : check_password_returns(s) <=> SessionValid(s))
    /\ [][\A s \in Sessions :
            (check_password(s) /\ session[s].authenticated /\ ~SessionValid(s))
                => ~session'[s].authenticated]_vars
    /\ [][\A s \in Sessions :
            (~SessionValid(s) /\ SessionValid(s)')
                => /\ ~session[s].authenticated
                   /\ session'[s].login_time = now
                   /\ login_activity'.rows
                         = Append(login_activity.rows,
                                  Row(session'[s].username, "success",
                                      session'[s].ip_address))]_vars

\* C16 witness: alice logged in at 0, the check one second after the eight
\* hours ended her session, and she was never logged out.
C16_Witness ==
    \E s \in Sessions :
        /\ now = SESSION_TIMEOUT + 1
        /\ session[s].login_time = 0
        /\ session[s].username = "alice"
        /\ ~session[s].authenticated
        /\ ~check_password_returns(s)
        /\ Len(ip_activity.rows) = 1

----------------------------------------------------------------------------
(* C17 *)

\* authenticated is false and the four identity fields hold their empty value
IdentityCleared(s) ==
    /\ ~session[s].authenticated
    /\ session[s].username = None
    /\ session[s].user_role = None
    /\ session[s].login_time = NoTime
    /\ session[s].ip_address = None

\* the check of session s finds the session older than eight hours
ExpiryDetected(s) ==
    /\ check_password(s)
    /\ session[s].authenticated
    /\ now - session[s].login_time > SESSION_TIMEOUT

\* C17: after logout, and after the session check has detected the expiry,
\* authenticated is false and username, user_role, login_time and
\* ip_address are reset to their empty value; logout appends one logout
\* record.
C17_AsStated ==
    /\ [][\A s \in Sessions :
            logout(s) =>
                /\ IdentityCleared(s)'
                /\ ip_activity'.rows
                      = Append(ip_activity.rows,
                               Row(session[s].username, "logout",
                                   session[s].ip_address))]_vars
    /\ [][\A s \in Sessions : ExpiryDetected(s) => IdentityCleared(s)']_vars

\* the two halves of C17, each on its own
C17_LogoutClears ==
    [][\A s \in Sessions : logout(s) => IdentityCleared(s)']_vars

C17_ExpiryClears ==
    [][\A s \in Sessions : ExpiryDetected(s) => IdentityCleared(s)']_vars

\* what the code does clear: logout leaves only login_time, the expiry
\* only sets authenticated to false
C17_WhatIsCleared ==
    /\ [][\A s \in Sessions :
            logout(s) =>
                /\ session'[s] = [session[s] EXCEPT !.authenticated = FALSE,
                                                    !.username = None,
                                                    !.user_role = None,
                                                    !.ip_address = None]
                /\ Len(ip_activity'.rows) = Len(ip_activity.rows) + 1
                /\ LastRow(ip_activity').activity = "logout"]_vars
    /\ [][\A s \in Sessions :
            ExpiryDetected(s) =>
                session'[s] = [session[s] EXCEPT !.authenticated = FALSE]]_vars

----------------------------------------------------------------------------
(* C18 *)

\* the attempts the map holds for a key
Attempts(rl, key) == IF key \in DOMAIN rl THEN Get(rl[key], "attempts", 0) ELSE 0

\* another request has counted a failure for the username of session s's
\* request since session s loaded the map
Overtaken(s) ==
    /\ requests[s].pc = "loaded"
    /\ Attempts(RateMap, requests[s].username)
          = Attempts(requests[s].loaded, requests[s].username) + 1

\* the failed logins handled for a username: the callbacks that have ended
Handled(username) ==
    Cardinality({i \in 1..Len(login_activity.rows) :
                    /\ login_activity.rows[i].username = username
                    /\ login_activity.rows[i].activity = "failed"})
    - Cardinality({s \in DOMAIN requests :
                    requests[s].pc = "loaded" /\ requests[s].username = username})

\* C18: two failed logins for the same identity race on the read-modify-write
\* of the rate-limit file: a request that loaded the map before the other one
\* wrote writes its own count over the other's, so that after both the
\* attempts have grown by one only; the attempts never exceed the failures
\* handled.
C18_LostUpdate ==
    /\ [](Attempts(RateMap, "alice") <= Handled("alice"))
    /\ [][\A s \in DOMAIN requests, username \in Usernames :
            (failed_login_end(s) /\ Overtaken(s) /\ requests[s].username = username)
                => /\ Attempts(RateMap', username) = Attempts(RateMap, username)
                   /\ Handled(username)' = Handled(username) + 1]_vars

\* C18 witness: both sessions' failed logins for alice have been handled, and
\* her entry counts one attempt.
C18_Witness ==
    /\ \A s \in DOMAIN requests : requests[s].pc = "idle"
    /\ \A s \in DOMAIN session : session[s].authentication_error = MsgBadCredentials
    /\ Handled("alice") = 2
    /\ Attempts(RateMap, "alice") = 1

----------------------------------------------------------------------------
(* C19 *)

\* what add_user answers to session s for the username
AddUserMessage(s, username, role, salt) ==
    add_user(session_credentials(s, salt).credentials, username, "pw", role, salt).message

\* C19 as stated: add with a username that is present in the store fails
\* with AlreadyExists and leaves the store unchanged; otherwise it inserts
\* exactly one new record for that username and changes no other record.
C19_AsStated ==
    [][\A s \in DOMAIN session, role \in {"user", "admin"}, salt \in Salts :
          add_user_form(s, "bob", "pw", role, salt, salt)
              => IF "bob" \in DOMAIN Persisted
                 THEN /\ AddUserMessage(s, "bob", role, salt) = MsgAlreadyExists
                      /\ credentials_file' = credentials_file
                 ELSE credentials_file'.data
                          = Put(Persisted, "bob",
                                [password |-> pbkdf2_hmac("pw", salt),
                                 salt |-> salt,
                                 role |-> role])]_vars

----------------------------------------------------------------------------
(* C20 *)

\* the records a store can hold for a username
EnumRecords ==
    {[password |-> pbkdf2_hmac(q, salt), salt |-> salt, role |-> role] :
        q \in {"wonderland", "admin"}, salt \in {"c41d"}, role \in {"analyst"}}

\* C20: from two states that differ only in whether username u is in the
\* credential store, a login for u with a password that does not match u's
\* record gets the same answer: the same message, the same log records and
\* the same rate-limit updates; the answer is the one password_entered
\* gives.
C20_NoEnumeration ==
    /\ [](\A s \in Sessions, u \in {"alice"}, p \in AnyPassword, ip \in EnumIPs,
             record \in EnumRecords :
             pbkdf2_hmac(p, record.salt) # record.password
                 => login_response(Put(Del(USER_CREDENTIALS, u), u, record), s, u, p, ip)
                      = login_response(Del(USER_CREDENTIALS, u), s, u, p, ip))
    /\ [][\A s \in Sessions, u \in {"alice"}, p \in AnyPassword, ip \in EnumIPs :
            password_entered(s, u, p, ip)
                => /\ session'[s].authenticated
                       = login_response(USER_CREDENTIALS, s, u, p, ip).authenticated
                   /\ session'[s].authentication_error
                       = login_response(USER_CREDENTIALS, s, u, p, ip).message
                   /\ login_activity' = login_response(USER_CREDENTIALS, s, u, p, ip).login_activity
                   /\ ip_activity' = login_response(USER_CREDENTIALS, s, u, p, ip).ip_activity
                   /\ rate_limits' = login_response(USER_CREDENTIALS, s, u, p, ip).rate_limits]_vars

\* C20 witness: alice, who is not in the store, has just been refused with
\* the message, the two log rows and the count a wrong password gets.
C20_Witness ==
    \E s \in Sessions :
        /\ "alice" \notin DOMAIN USER_CREDENTIALS
        /\ session[s].authentication_error = MsgBadCredentials
        /\ Len(login_activity.rows) = 1
        /\ LastRow(login_activity) = Row("alice", "failed", "1.1.1.1")
        /\ LastRow(ip_activity) = Row("alice", "failed_login", "1.1.1.1")
        /\ Attempts(RateMap, "alice") = 1
        /\ Attempts(RateMap, ip_key_of("1.1.1.1")) = 1

\* C20 witness in the other state: alice, who is in the store, has just been
\* refused for a wrong password in the same way.
C20_WitnessKnown ==
    \E s \in Sessions :
        /\ "alice" \in DOMAIN USER_CREDENTIALS
        /\ session[s].authentication_error = MsgBadCredentials
        /\ Len(login_activity.rows) = 1
        /\ LastRow(login_activity) = Row("alice", "failed", "1.1.1.1")
        /\ LastRow(ip_activity) = Row("alice", "failed_login", "1.1.1.1")
        /\ Attempts(RateMap, "alice") = 1
        /\ Attempts(RateMap, ip_key_of("1.1.1.1")) = 1

----------------------------------------------------------------------------
(* C21 *)

\* the list holds an entry written as CIDR that is not a network
HasMalformed(entries) ==
    \E i \in 1..Len(entries) : Lex(entries[i]).slash /\ ~ip_network_ok(entries[i])

\* the address matches a well-formed entry of the list
MatchesWellFormed(ip, entries) ==
    \E i \in 1..Len(entries) :
        /\ Lex(entries[i]).slash => ip_network_ok(entries[i])
        /\ Matches(ip, entries[i])

\* C21 as stated: is_ip_allowed on a policy whose allow or deny list holds a
\* malformed CIDR entry does not raise, it returns a boolean; and an address
\* that matches a well-formed entry of the deny list is still denied.
C21_AsStated ==
    \A ip \in IPStrings \ {"not-an-ip"} :
        LET cfg == load_ip_config(ip_config) IN
        (HasMalformed(cfg.allow_list) \/ HasMalformed(cfg.deny_list))
            => /\ is_ip_allowed(cfg, ip) \in {"True", "False"}
               /\ (cfg.mode = "use_lists" /\ ip # "Unknown"
                      /\ MatchesWellFormed(ip, cfg.deny_list))
                       => is_ip_allowed(cfg, ip) = "False"

\* what the code does with a malformed CIDR entry: away from use_lists and
\* for "Unknown" the lists are not read; under use_lists the call raises as
\* soon as a loop reaches the entry, and returns only when an earlier entry
\* has decided.
C21_WhenItRaises ==
    \A ip \in IPStrings \ {"not-an-ip", "Unknown"} :
        LET cfg == load_ip_config(ip_config) IN
        /\ (cfg.mode = "use_lists" /\ Len(cfg.deny_list) >= 1
               /\ Lex(cfg.deny_list[1]).slash /\ ~ip_network_ok(cfg.deny_list[1]))
              => is_ip_allowed(cfg, ip) = "ValueError"
        /\ cfg.mode # "use_lists" => is_ip_allowed(cfg, ip) \in {"True", "False"}

----------------------------------------------------------------------------
(* C22 *)

\* the session is authenticated, not older than eight hours, and its role
\* is admin
AdminSession(s) ==
    /\ session[s].authenticated
    /\ now - session[s].login_time <= SESSION_TIMEOUT
    /\ session[s].user_role = "admin"

\* the step changed the IP policy, cleared the panel's rate-limit map, or
\* changed the persisted credential store
AdminChange ==
    \/ load_ip_config(ip_config') # load_ip_config(ip_config)
    \/ panel_rate_limits' # panel_rate_limits
    \/ credentials_file'.data # credentials_file.data

\* C22: the IP policy, the rate-limit map's clear_all and the credential
\* store's add, remove, change_role and reset_password change only in a step
\* taken by a session that is authenticated, not expired and of role admin;
\* the writing of the default policy changes no policy.
C22_AdminOnly ==
    [][AdminChange => \E s \in DOMAIN session :
                         /\ AdminSession(s)
                         /\ session'[s].authenticated
                         /\ Len(ip_activity'.rows) > Len(ip_activity.rows)
                         /\ LastRow(ip_activity').username = session[s].username
                         /\ LastRow(ip_activity').activity
                                \in {"page_view_admin", "page_view_user_management"}]_vars

\* C22 witnesses: an administrator's session has saved a policy, has
\* cleared the panel's map, and has changed the store.
C22_Witness ==
    /\ \E s \in DOMAIN session : AdminSession(s)
    /\ ip_config.exists /\ ip_config.data.mode = "deny_all"
    /\ panel_rate_limits = File(EmptyMap)
    /\ "bob" \in DOMAIN credentials_file.data

----------------------------------------------------------------------------
(* C23 *)

\* log is an extension of old: the old rows are its first rows
Extends(log, old) ==
    /\ Len(log.rows) >= Len(old.rows)
    /\ SubSeq(log.rows, 1, Len(old.rows)) = old.rows
    /\ log.headers >= old.headers
    /\ old.exists => log.exists

\* the stream holds one header row from its creation on
OneHeader(log) == log.headers = (IF log.exists THEN 1 ELSE 0)

\* C23 as stated: each of the two activity streams is in every state an
\* extension of what it was before (no record modified or removed), and its
\* header row is written once, when the stream is created.
C23_AsStated ==
    /\ [](OneHeader(login_activity) /\ OneHeader(ip_activity))
    /\ [][/\ Extends(login_activity', login_activity)
          /\ Extends(ip_activity', ip_activity)]_vars

\* the part of C23 that holds under every interleaving: no record is
\* modified or removed
C23_AppendOnly ==
    [][/\ Extends(login_activity', login_activity)
       /\ Extends(ip_activity', ip_activity)]_vars

----------------------------------------------------------------------------
(* C24 *)

\* C24 as stated: whatever add_user, delete_user, change_role and
\* reset_password calls the admin sessions issue, each on its own copy, the
\* persisted store holds at least one user of role admin (whenever no save
\* is halfway through writing it).
C24_AsStated == ~credentials_being_written => admin_count(Persisted) >= 1

\* every copy a session has read from a whole file keeps an admin
C24_CopiesKeepAdmin ==
    \A s \in DOMAIN session :
        ("credentials_data" \in DOMAIN session[s]
            /\ session[s].credentials_data # EmptyMap
            /\ "admin" \in DOMAIN session[s].credentials_data)
            => admin_count(session[s].credentials_data) >= 1

----------------------------------------------------------------------------
(* C25 *)

\* the key is the key of an address
IpKey(key) == \E ip \in AnyIP : key = ip_key_of(ip)

\* the entry is well formed for the threshold: attempts within 1..threshold,
\* reset_time carried iff the attempts have reached the threshold, and then
\* at least 1500 seconds after the end of the window
WellFormed(entry, threshold) ==
    /\ "attempts" \in DOMAIN entry /\ "window_end" \in DOMAIN entry
    /\ entry.attempts >= 1 /\ entry.attempts <= threshold
    /\ ("reset_time" \in DOMAIN entry) <=> (entry.attempts >= threshold)
    /\ "reset_time" \in DOMAIN entry => entry.reset_time >= entry.window_end + 1500

\* C25 as stated: with login attempts handled one at a time, every entry
\* of the rate-limit map is well formed: the entry of a username with the
\* threshold 5, the entry of an address with the threshold 10.
C25_AsStated ==
    \A key \in DOMAIN RateMap :
        /\ key \in AnyUsername => WellFormed(RateMap[key], USER_THRESHOLD)
        /\ IpKey(key) => WellFormed(RateMap[key], IP_THRESHOLD)

\* C25 for the entries that are not at once a username's and an address's
C25_SeparateKeys ==
    \A key \in DOMAIN RateMap :
        /\ (key \in AnyUsername /\ ~IpKey(key))
              => WellFormed(RateMap[key], USER_THRESHOLD)
        /\ (IpKey(key) /\ key \notin AnyUsername)
              => WellFormed(RateMap[key], IP_THRESHOLD)

----------------------------------------------------------------------------
(* C26 *)

\* the step keeps the lock of the key: its entry and its reset_time stay
LockKept(key) ==
    /\ key \in DOMAIN RateMap'
    /\ "reset_time" \in DOMAIN RateMap'[key]
    /\ RateMap'[key].reset_time = RateMap[key].reset_time

\* C26 as stated: an identity whose reset_time has been set stays locked
\* until reset_time is reached, and its reset_time is neither removed nor
\* moved, whatever login attempts of other sessions interleave at the
\* granularity of the file's read and write (no step here clears the map).
C26_AsStated ==
    [][\A key \in DOMAIN RateMap : Locked(key) => LockKept(key)]_vars

----------------------------------------------------------------------------
(* C27 *)

\* the failed password verifications for the username inside the counting
\* window of its entry
FailedInWindow(username) ==
    Cardinality({i \in 1..Len(login_activity.rows) :
                    /\ login_activity.rows[i].username = username
                    /\ login_activity.rows[i].activity = "failed"
                    /\ username \in DOMAIN RateMap
                    /\ login_activity.rows[i].timestamp
                           >= RateMap[username].window_end - WINDOW
                    /\ login_activity.rows[i].timestamp
                           <= RateMap[username].window_end})

\* C27 as stated: for any username at most 5 failed password verifications
\* are carried out inside one counting window, also when the check and the
\* increment of several sessions interleave.
C27_AsStated ==
    \A username \in {"alice", "admin"} : FailedInWindow(username) <= USER_THRESHOLD

----------------------------------------------------------------------------
(* C28 *)

\* C28 as stated: once add_user(bob) of one session has succeeded, the
\* persisted store holds bob after every later successful operation of a
\* session on another username.
C28_AsStated ==
    [][\A s \in DOMAIN session, salt \in Salts :
          (/\ "bob" \in DOMAIN Persisted
           /\ delete_user_button(s, "alice", salt)
           /\ credentials_file' # credentials_file)
              => "bob" \in DOMAIN Persisted']_vars

\* what holds: after a save the persisted store is the saving session's
\* copy, whatever it held before
C28_WholeCopySaved ==
    [][\A s \in DOMAIN session, salt \in Salts :
          (delete_user_button(s, "alice", salt) /\ credentials_file' # credentials_file)
              => /\ Persisted' = session'[s].credentials_data
                 /\ Persisted' = Del(session_credentials(s, salt).credentials, "alice")]_vars

----------------------------------------------------------------------------
(* C29 *)

\* C29 as stated: a session that passes the session check is the session of
\* a username the persisted store holds, with the role stored for it.
C29_AsStated ==
    \A s \in DOMAIN session :
        check_password_returns(s)
            => /\ session[s].username \in DOMAIN Persisted
               /\ session[s].user_role = Persisted[session[s].username].role

\* what holds: the role of a session is the role the store of the login
\* gate held for the username when it logged in, and changes with nothing
\* but a login or a logout of that session
C29_RoleFromLogin ==
    [][\A s \in DOMAIN session :
          session'[s].user_role # session[s].user_role
              => \/ /\ ~session[s].authenticated /\ session'[s].authenticated
                    /\ session'[s].user_role
                          = USER_CREDENTIALS[session'[s].username].role
                 \/ /\ session[s].authenticated /\ ~session'[s].authenticated
                    /\ session'[s].user_role = None]_vars

----------------------------------------------------------------------------
(* C30 *)

\* the copy of session s is what a failed read of the file left it with
FailedRead(s) ==
    /\ "credentials_data" \in DOMAIN session[s]
    /\ session[s].credentials_data = EmptyMap

\* C30 as stated: after a read of the persisted store that failed with an
\* error other than file-not-found, the user-management operations that
\* follow do not overwrite the persisted store with a mapping that lacks
\* the users it held.
C30_AsStated ==
    [][\A s \in DOMAIN session, salt \in Salts :
          (FailedRead(s) /\ add_user_form(s, "carol", "pw", "user", salt, salt))
              => DOMAIN Persisted \subseteq DOMAIN Persisted']_vars

\* what holds: the failed read itself is answered without a crash and leaves
\* the file alone; the session's copy is {}
C30_ReadDegrades ==
    [][\A s \in DOMAIN session, salt \in Salts :
          (/\ "credentials_data" \notin DOMAIN session[s]
           /\ credentials_being_written
           /\ view_users_racing(s, salt))
              => /\ session'[s].credentials_data = EmptyMap
                 /\ credentials_file' = credentials_file]_vars

====
